---- MODULE Spec2Model ----
(***************************************************************************)
(* State-machine model of the browser client in src/streaming-platform.js: *)
(* single-device session enforcement (registerSessionForUser, heartbeat,   *)
(* realtime handler, forceLocalSignOut, logout), the entitlement gate      *)
(* (isAllowedUser, isUserApproved) and the embed player with its source    *)
(* failover (openPlayer, loadSource, handleSourceFailure, closePlayer).    *)
(*                                                                         *)
(* JavaScript is single threaded: every action below is one run-to-        *)
(* completion task, i.e. the code between two awaits / timer callbacks /   *)
(* DOM events.  The answer of an external service (AuthService,            *)
(* Datastore) is an input of the action that resumes after the await.      *)
(***************************************************************************)
EXTENDS Integers, Sequences, FiniteSets, TLC

\* ------------------------------------------------------------------ bounds
MaxInbox == 1      \* realtime events queued per client channel
MaxFso == 1        \* forceLocalSignOut calls suspended at their await
MaxOps == 2        \* sign-in submits and page reloads, all browsers together
MaxLoads == 5      \* loadSource invocations logged per page lifetime
MaxOpens == 1      \* playback starts per page lifetime
MaxErrors == 3     \* error signals of the embedded document per page lifetime
MaxNow == 5        \* instants of the probe clock for isAllowedUser
MaxDay == 2        \* calendar days an expiry_date can name
TicksPerDay == 2   \* instants of the clock per calendar day
InitNow == 3       \* the instant at which the session specifications run
Hz == 2            \* resolution of the playback clock: instants per second
MaxPosition == 500 \* seconds: largest position handed to updateWatchProgress alone
MaxElapsed == 61   \* seconds of wall-clock time a playback session is followed
MaxCalls == 4      \* getDeviceId calls followed on one storage scope
MaxClosedAgain == 1  \* closePlayer calls on a closed player per page lifetime
MaxSources == 5    \* longest source list handed to handleSourceFailure alone
MaxSeason == 2     \* seasons of a series
MaxEpisode == 2    \* episodes of a season
MaxEpisodeChanges == 1  \* season and episode changes per page lifetime

\* ------------------------------------------------------- JavaScript values
NULL == "null"
Devices == {"A", "B"}          \* the values getDeviceId() returns on the two browsers
Users == {"u1"}                \* identities known to the AuthService
PlayerDevice == "A"            \* the browser whose player is modelled

Outcomes == {"ok", "err", "throw"}   \* of an awaited supabase call

VARIABLES
  active_sessions,     \* table active_sessions: set of rows
  allowed_users,       \* table allowed_users: set of rows
  authSession,         \* [Devices -> user | NULL]: AuthService session of the browser
  now,                 \* current instant (new Date())
  currentUser,         \* [Devices -> user | NULL]
  isUserApproved,      \* [Devices -> BOOLEAN]
  heartbeatIntervalId, \* [Devices -> set of at most one timer closure]
  sessionChannel,      \* [Devices -> set of at most one channel closure]
  inbox,               \* [Devices -> Seq(payload)]: realtime events not yet handled
  ui,                  \* [Devices -> view shown]
  hs,                  \* [Devices -> frame of handleSignin]
  lu,                  \* [Devices -> frame of loadUser]
  reg,                 \* [Devices -> frame of registerSessionForUser]
  fso,                 \* [Devices -> Seq(message)]: forceLocalSignOut calls at their await
  lo,                  \* [Devices -> frame of the logout click handler]
  ops,                 \* number of sign-in submits and reloads so far
  player,              \* player state of PlayerDevice (globals of the module)
  loads,               \* Seq of loadSource invocations (closures) of PlayerDevice
  failovers,           \* Seq of indices: pending setTimeout(() => loadSource(next))
  iframe,              \* the embedded document element of PlayerDevice
  notes,               \* observable surface of PlayerDevice: modals, notices and
                       \* the rows it sent to the watch tables
  library,             \* bookmarks and continue-watching of PlayerDevice: the two
                       \* in-memory lists, the two tables, the remote calls in flight
  probe                \* input/output pair of a pure function under test

sessVars == <<active_sessions, allowed_users, authSession, now, currentUser,
              isUserApproved, heartbeatIntervalId, sessionChannel, inbox, ui,
              hs, lu, reg, fso, lo, ops>>
playerVars == <<player, loads, failovers, iframe, notes>>
vars == <<sessVars, playerVars, library, probe>>

\* ------------------------------------------------------------ value spaces
Bool3 == {"true", "false", NULL}                   \* a nullable boolean column
Flags == {"S", "N", "n", NULL}                     \* session_flag column
DeviceCol == Devices \cup {NULL}

SessionRows == [user_id: Users, device_id: DeviceCol, is_active: Bool3, session_flag: Flags]

\* expiry_date column: null, empty text, unparseable text or a calendar day
ExpiryVals == {[kind |-> "null", day |-> 0], [kind |-> "empty", day |-> 0],
               [kind |-> "invalid", day |-> 0]}
              \cup {[kind |-> "date", day |-> k] : k \in 0..MaxDay}
ApprovedVals == {"true", "false", NULL, "'true'"}  \* 'true' is the string, not the boolean
AllowedRows == [email: Users, approved: ApprovedVals, expiry_date: ExpiryVals]

NoExpiry == [kind |-> "null", day |-> 0]

HsIdle == [pc |-> "idle", user |-> NULL]
LoIdle == [pc |-> "idle", user |-> NULL]
RegIdle == [pc |-> "idle", user |-> NULL, caller |-> "none"]
NoCheck == [allowed |-> FALSE, reason |-> "unset", expiryDate |-> NoExpiry]
LuIdle == [pc |-> "idle", user |-> NULL, accessCheck |-> NoCheck]
NoProbe == [fn |-> "none", resp |-> [kind |-> "none", data |-> {}, error |-> "none"],
            t |-> 0, out |-> NoCheck, done |-> TRUE]

\* ------------------------------------------------------- EntitlementGate
\* new Date(text): an unparseable text gives Invalid Date, a calendar day
\* gives the instant of its midnight
ParseDate(e) ==
  IF e.kind = "date" THEN [valid |-> TRUE, t |-> e.day * TicksPerDay]
  ELSE [valid |-> FALSE, t |-> 0]

\* truthiness of data.expiry_date: null and the empty text are falsy
Truthy(e) == e.kind \in {"invalid", "date"}

\* expiryDate < now on Date objects: false when the date is invalid (NaN)
DateBefore_m(e, t) == ParseDate(e).valid /\ ParseDate(e).t <= t
DateBefore(e, t) == ParseDate(e).valid /\ ParseDate(e).t < t

\* a response of the allowed_users query: data is a set of at most one row
\* (empty = null), error is "none", "PGRST116" (no row for .single()) or "other"
AllowedResponses ==
  [kind: {"resolved"}, data: {{}} \cup {{r} : r \in AllowedRows},
   error: {"none", "PGRST116", "other"}]
  \cup {[kind |-> "throw", data |-> {}, error |-> "none"]}

\* a returned error handled like "no row"
isAllowedUser_m(resp, t) ==
  IF resp.kind = "throw" THEN [allowed |-> FALSE, reason |-> "error", expiryDate |-> NoExpiry]
  ELSE IF resp.data = {}
    THEN [allowed |-> FALSE, reason |-> "not_found", expiryDate |-> NoExpiry]
  ELSE LET data == CHOOSE r \in resp.data : TRUE IN
    IF data.approved # "true"
      THEN [allowed |-> FALSE, reason |-> "not_approved", expiryDate |-> NoExpiry]
    ELSE IF Truthy(data.expiry_date) /\ DateBefore(data.expiry_date, t)
      THEN [allowed |-> FALSE, reason |-> "expired", expiryDate |-> NoExpiry]
    ELSE [allowed |-> TRUE, reason |-> "none", expiryDate |-> data.expiry_date]

isAllowedUser(resp, t) ==
  IF resp.kind = "throw" THEN [allowed |-> FALSE, reason |-> "error", expiryDate |-> NoExpiry]
  ELSE IF resp.error # "none" /\ resp.error # "PGRST116"
    THEN [allowed |-> FALSE, reason |-> "error", expiryDate |-> NoExpiry]
  ELSE IF resp.data = {}
    THEN [allowed |-> FALSE, reason |-> "not_found", expiryDate |-> NoExpiry]
  ELSE LET data == CHOOSE r \in resp.data : TRUE IN
    IF data.approved # "true"
      THEN [allowed |-> FALSE, reason |-> "not_approved", expiryDate |-> NoExpiry]
    ELSE IF Truthy(data.expiry_date) /\ DateBefore(data.expiry_date, t)
      THEN [allowed |-> FALSE, reason |-> "expired", expiryDate |-> NoExpiry]
    ELSE [allowed |-> TRUE, reason |-> "none", expiryDate |-> data.expiry_date]

\* what .from("allowed_users").select().eq("email", email).single() resolves to
SelectAllowed(email, outcome) ==
  LET rows == {r \in allowed_users : r.email = email} IN
  IF outcome = "throw" THEN [kind |-> "throw", data |-> {}, error |-> "none"]
  ELSE IF outcome = "err" THEN [kind |-> "resolved", data |-> {}, error |-> "other"]
  ELSE IF rows = {} THEN [kind |-> "resolved", data |-> {}, error |-> "PGRST116"]
  ELSE [kind |-> "resolved", data |-> rows, error |-> "none"]

\* ------------------------------------------------------------ Datastore
SessionOf(table, u) == {r \in table : r.user_id = u}

\* upsert on the primary key user_id: columns absent from vals keep their
\* stored value, or are NULL in a freshly inserted row
UpsertRow(table, vals) ==
  LET old == SessionOf(table, vals.user_id)
      col(c) == IF c \in DOMAIN vals THEN vals[c]
                ELSE IF old = {} THEN NULL ELSE (CHOOSE r \in old : TRUE)[c]
      new == [user_id |-> vals.user_id, device_id |-> col("device_id"),
              is_active |-> col("is_active"), session_flag |-> col("session_flag")]
  IN (table \ old) \cup {new}

\* the realtime change event of a write to the row of user u.  The old
\* record is carried by DELETE events only: the handler reads it in no
\* other case
ChangeEvent(before, after, u) ==
  LET old == SessionOf(before, u)
      new == SessionOf(after, u) IN
  [eventType |-> IF new = {} THEN "DELETE" ELSE IF old = {} THEN "INSERT" ELSE "UPDATE",
   new |-> new, old |-> IF new = {} THEN old ELSE {}]

Subscribed(d, u) == \E c \in sessionChannel[d] : c.user_id = u

\* every client holding a subscription on the row of u has room for one more event
CanBroadcast(u) == \A d \in Devices : Subscribed(d, u) => Len(inbox[d]) < MaxInbox

Broadcast(box, ev, u) ==
  [d \in Devices |-> IF Subscribed(d, u) THEN Append(box[d], ev) ELSE box[d]]

\* ---------------------------------------------------------- SessionGuard
getDeviceId(d) == d

toUpperCase_m(f) == f
toUpperCase(f) == IF f = "n" THEN "N" ELSE f

\* a DELETE handled without the comparison of the device ids
handleSessionChange_m(payload, myDeviceId) ==
  LET relevantRow == IF payload.new # {} THEN payload.new ELSE payload.old IN
  IF relevantRow = {} THEN "none"
  ELSE IF payload.eventType = "DELETE" THEN "deleted"
  ELSE LET row == CHOOSE r \in relevantRow : TRUE IN
    IF row.is_active = "false"
       \/ (row.session_flag # NULL /\ toUpperCase(row.session_flag) = "N")
      THEN "disabled"
    ELSE IF row.device_id # NULL /\ row.device_id # myDeviceId
      THEN "other_device"
    ELSE "none"

\* the message handleSessionChange passes to forceLocalSignOut, or "none"
handleSessionChange(payload, myDeviceId) ==
  LET relevantRow == IF payload.new # {} THEN payload.new ELSE payload.old IN
  IF relevantRow = {} THEN "none"
  ELSE IF payload.eventType = "DELETE"
    THEN IF payload.old # {} /\ (CHOOSE r \in payload.old : TRUE).device_id = myDeviceId
           THEN "deleted" ELSE "none"
  ELSE LET row == CHOOSE r \in relevantRow : TRUE IN
    IF row.is_active = "false"
       \/ (row.session_flag # NULL /\ toUpperCase(row.session_flag) = "N")
      THEN "disabled"
    ELSE IF row.device_id # NULL /\ row.device_id # myDeviceId
      THEN "other_device"
    ELSE "none"

\* the check at the top of the upsert branch of registerSessionForUser
ForeignActive_m(existing, deviceId) ==
  \E r \in existing : r.device_id # NULL /\ r.device_id # deviceId
ForeignActive(existing, deviceId) ==
  \E r \in existing : r.is_active = "true" /\ r.device_id # NULL /\ r.device_id # deviceId

\* ------------------------------------------------------------------ frames
\* states of the entitlement row an administrator can store for a user
EntitlementChoices(u) ==
  {{}, {[email |-> u, approved |-> "false", expiry_date |-> NoExpiry]}}
  \cup {{[email |-> u, approved |-> "true", expiry_date |-> e]} :
          e \in {NoExpiry, [kind |-> "date", day |-> 1], [kind |-> "date", day |-> 2]}}

\* patches an administrator applies to a session row
AdminPatches ==
  {[is_active |-> "false"], [session_flag |-> "n"],
   [is_active |-> "false", session_flag |-> "N"]}

InitPlayerState ==
  [currentMediaType |-> NULL, currentMediaId |-> 0, currentSeason |-> 1,
   currentEpisode |-> 1, embedSources |-> <<>>, watchStartTime |-> NULL,
   playerInterval |-> FALSE, elapsed |-> 0, sinceInterval |-> 0]
InitIframe ==
  [src |-> [provider |-> 0, media_type |-> NULL, id |-> 0, season |-> 0, episode |-> 0],
   navigating |-> FALSE, onerror |-> 0]
InitNotes ==
  [paymentModal |-> FALSE, playerModal |-> FALSE, allFailed |-> 0, loginError |-> 0,
   opens |-> 0, loadLog |-> <<>>, errors |-> 0,
   history |-> <<>>, progress |-> <<>>, stats |-> <<>>, episodeChanges |-> 0,
   closedAgain |-> 0]

\* the list a load builds from the rows of user u, newest first
RECURSIVE Loaded(_, _)
Loaded(table, u) ==
  IF table = <<>> THEN <<>>
  ELSE LET rest == Loaded(Tail(table), u) IN
       IF Head(table).user_id = u THEN Append(rest, Head(table).media) ELSE rest

\* no bookmark, no continue-watching entry, no remote call in flight
InitLibrary ==
  [bookmarks |-> <<>>, continueWatching |-> <<>>, user_bookmarks |-> <<>>,
   continue_watching |-> <<>>, calls |-> <<>>]

InitClient ==
  /\ currentUser = [d \in Devices |-> NULL]
  /\ isUserApproved = [d \in Devices |-> FALSE]
  /\ heartbeatIntervalId = [d \in Devices |-> {}]
  /\ sessionChannel = [d \in Devices |-> {}]
  /\ inbox = [d \in Devices |-> <<>>]
  /\ ui = [d \in Devices |-> "loading"]
  /\ hs = [d \in Devices |-> HsIdle]
  /\ lu = [d \in Devices |-> [LuIdle EXCEPT !.pc = "getUser"]]
  /\ reg = [d \in Devices |-> RegIdle]
  /\ fso = [d \in Devices |-> <<>>]
  /\ lo = [d \in Devices |-> LoIdle]
  /\ ops = 0

InitPlayerVars ==
  /\ player = InitPlayerState
  /\ loads = <<>>
  /\ failovers = <<>>
  /\ iframe = InitIframe
  /\ notes = InitNotes
  /\ library = InitLibrary

\* the state after DOMContentLoaded on both browsers: initApp has called
\* loadUser, which is suspended at supabase.auth.getUser()
Init ==
  /\ active_sessions = {}
  /\ allowed_users = {}
  /\ authSession = [d \in Devices |-> NULL]
  /\ now = InitNow
  /\ InitClient
  /\ InitPlayerVars
  /\ probe = NoProbe

\* ------------------------------------------------------- flow plumbing
\* loadUser resolves: handleSignin, if it awaits loadUser, runs its finally
LuEnd(d) ==
  /\ lu' = [lu EXCEPT ![d] = LuIdle]
  /\ hs' = [hs EXCEPT ![d] = IF hs[d].pc = "loadUser" THEN HsIdle ELSE hs[d]]

\* registerSessionForUser resolves to ok: the caller resumes.  handleSignin
\* returns on a failed registration and otherwise calls loadUser (suspended
\* at getUser); loadUser ignores the result and goes on to its load calls
RegReturn(d, ok) ==
  /\ reg' = [reg EXCEPT ![d] = RegIdle]
  /\ IF reg[d].caller = "hs"
       THEN IF ok
              THEN /\ hs' = [hs EXCEPT ![d].pc = "loadUser"]
                   /\ lu' = [lu EXCEPT ![d] = [LuIdle EXCEPT !.pc = "getUser"]]
              ELSE /\ hs' = [hs EXCEPT ![d] = HsIdle]
                   /\ lu' = lu
       ELSE /\ lu' = [lu EXCEPT ![d].pc = "loads"]
            /\ hs' = hs

\* -------------------------------------------------------- handleSignin
\* submit of the sign-in form (shown in the unauthenticated view; the
\* submit button is disabled while a sign-in is running)
SigninSubmit(d, u) ==
  /\ ui[d] = "unauth"
  /\ hs[d].pc = "idle" /\ lu[d].pc = "idle" /\ lo[d].pc = "idle"
  /\ ops < MaxOps
  /\ ops' = ops + 1
  /\ hs' = [hs EXCEPT ![d] = [pc |-> "signIn", user |-> u]]
  /\ UNCHANGED <<active_sessions, allowed_users, authSession, now, currentUser,
                 isUserApproved, heartbeatIntervalId, sessionChannel, inbox, ui,
                 lu, reg, fso, lo, playerVars, probe, library>>

\* signInWithPassword resolves; on success registerSessionForUser is called
\* and suspends at its select
SigninAuthReturn(d, outcome) ==
  /\ hs[d].pc = "signIn"
  /\ IF outcome = "ok"
       THEN /\ authSession' = [authSession EXCEPT ![d] = hs[d].user]
            /\ hs' = [hs EXCEPT ![d].pc = "register"]
            /\ reg' = [reg EXCEPT ![d] = [pc |-> "select", user |-> hs[d].user, caller |-> "hs"]]
       ELSE /\ hs' = [hs EXCEPT ![d] = HsIdle]
            /\ UNCHANGED <<authSession, reg>>
  /\ UNCHANGED <<active_sessions, allowed_users, now, currentUser, isUserApproved,
                 heartbeatIntervalId, sessionChannel, inbox, ui, lu, fso, lo,
                 ops, playerVars, probe, library>>

\* ---------------------------------------------- registerSessionForUser
\* the select of the existing row resolves.  A returned error leaves
\* existing = null and is only logged
RegSelectReturn(d, outcome) ==
  /\ reg[d].pc = "select"
  /\ LET existing == IF outcome = "ok" THEN SessionOf(active_sessions, reg[d].user) ELSE {} IN
     IF outcome = "throw"
       THEN RegReturn(d, FALSE)
       ELSE /\ reg' = [reg EXCEPT ![d].pc =
                         IF ForeignActive(existing, getDeviceId(d)) THEN "signOut" ELSE "upsert"]
            /\ UNCHANGED <<hs, lu>>
  /\ UNCHANGED <<active_sessions, allowed_users, authSession, now, currentUser,
                 isUserApproved, heartbeatIntervalId, sessionChannel, inbox, ui,
                 fso, lo, ops, playerVars, probe, library>>

\* the sign-out of the rejected device resolves ("Account already active on
\* another device"), or throws into the catch; both return false
RegSignOutReturn(d, outcome) ==
  /\ reg[d].pc = "signOut"
  /\ authSession' = [authSession EXCEPT ![d] = IF outcome = "ok" THEN NULL ELSE @]
  /\ RegReturn(d, FALSE)
  /\ UNCHANGED <<active_sessions, allowed_users, now, currentUser, isUserApproved,
                 heartbeatIntervalId, sessionChannel, inbox, ui, fso, lo,
                 ops, playerVars, probe, library>>

startSessionRealtimeSubscription(ch, userId, deviceId) ==
  {[user_id |-> userId, device_id |-> deviceId]}

startHeartbeat(hb, userId, deviceId) ==
  {[user_id |-> userId, device_id |-> deviceId]}

\* a registration whose check and write are one step on the table: the
\* upsert is refused when the row is held by another device at the write
RegUpsertReturn_m(d, outcome) ==
  /\ reg[d].pc = "upsert"
  /\ IF ForeignActive(SessionOf(active_sessions, reg[d].user), getDeviceId(d))
       THEN /\ RegReturn(d, FALSE)
            /\ UNCHANGED <<active_sessions, inbox, sessionChannel, heartbeatIntervalId>>
       ELSE LET u == reg[d].user
                after == UpsertRow(active_sessions,
                           [user_id |-> u, device_id |-> getDeviceId(d),
                            is_active |-> "true", session_flag |-> "S"]) IN
            /\ CanBroadcast(u)
            /\ active_sessions' = after
            /\ inbox' = [Broadcast(inbox, ChangeEvent(active_sessions, after, u), u)
                           EXCEPT ![d] = <<>>]
            /\ sessionChannel' = [sessionChannel EXCEPT ![d] =
                   startSessionRealtimeSubscription(@, u, getDeviceId(d))]
            /\ heartbeatIntervalId' = [heartbeatIntervalId EXCEPT ![d] =
                   startHeartbeat(@, u, getDeviceId(d))]
            /\ RegReturn(d, TRUE)
  /\ UNCHANGED <<allowed_users, authSession, now, currentUser, isUserApproved, ui,
                 fso, lo, ops, playerVars, probe, library>>

\* the upsert resolves.  Its returned error is not inspected: the
\* subscription and the heartbeat start and the call returns true unless
\* the upsert threw.  Replacing the channel drops the events still queued
\* on the old one
RegUpsertReturn(d, outcome) ==
  /\ reg[d].pc = "upsert"
  /\ LET u == reg[d].user
         after == UpsertRow(active_sessions,
                    [user_id |-> u, device_id |-> getDeviceId(d),
                     is_active |-> "true", session_flag |-> "S"]) IN
     /\ IF outcome = "ok"
          THEN /\ CanBroadcast(u)
               /\ active_sessions' = after
               /\ inbox' = [Broadcast(inbox, ChangeEvent(active_sessions, after, u), u)
                              EXCEPT ![d] = <<>>]
          ELSE /\ active_sessions' = active_sessions
               /\ inbox' = IF outcome = "err" THEN [inbox EXCEPT ![d] = <<>>] ELSE inbox
     /\ IF outcome = "throw"
          THEN /\ RegReturn(d, FALSE)
               /\ UNCHANGED <<sessionChannel, heartbeatIntervalId>>
          ELSE /\ sessionChannel' = [sessionChannel EXCEPT ![d] =
                      startSessionRealtimeSubscription(@, u, getDeviceId(d))]
               /\ heartbeatIntervalId' = [heartbeatIntervalId EXCEPT ![d] =
                      startHeartbeat(@, u, getDeviceId(d))]
               /\ RegReturn(d, TRUE)
  /\ UNCHANGED <<allowed_users, authSession, now, currentUser, isUserApproved, ui,
                 fso, lo, ops, playerVars, probe, library>>

\* -------------------------------------------------------------- loadUser
\* getUser resolves.  No user: the unauthenticated view
LuGetUserReturn(d, outcome) ==
  /\ lu[d].pc = "getUser"
  /\ LET user == IF outcome = "ok" THEN authSession[d] ELSE NULL IN
     IF outcome = "throw"
       THEN /\ ui' = [ui EXCEPT ![d] = "unauth"]
            /\ LuEnd(d)
            /\ UNCHANGED <<currentUser, isUserApproved>>
       ELSE IF user # NULL
         THEN /\ currentUser' = [currentUser EXCEPT ![d] = user]
              /\ lu' = [lu EXCEPT ![d] = [LuIdle EXCEPT !.pc = "isAllowed", !.user = user]]
              /\ UNCHANGED <<isUserApproved, ui, hs>>
         ELSE /\ currentUser' = [currentUser EXCEPT ![d] = NULL]
              /\ isUserApproved' = [isUserApproved EXCEPT ![d] = FALSE]
              /\ ui' = [ui EXCEPT ![d] = "unauth"]
              /\ LuEnd(d)
  /\ UNCHANGED <<active_sessions, allowed_users, authSession, now,
                 heartbeatIntervalId, sessionChannel, inbox, reg, fso, lo,
                 ops, playerVars, probe, library>>

\* registerSessionForUser called without await: loadUser goes on to its
\* load calls while the registration runs
LuIsAllowedReturn_m(d, outcome) ==
  /\ lu[d].pc = "isAllowed"
  /\ LET accessCheck == isAllowedUser(SelectAllowed(lu[d].user, outcome), now) IN
     /\ isUserApproved' = [isUserApproved EXCEPT ![d] = accessCheck.allowed]
     /\ lu' = [lu EXCEPT ![d].pc = "loads", ![d].accessCheck = accessCheck]
  /\ reg' = [reg EXCEPT ![d] = [pc |-> "select", user |-> lu[d].user, caller |-> "lu"]]
  /\ UNCHANGED <<active_sessions, allowed_users, authSession, now, currentUser,
                 heartbeatIntervalId, sessionChannel, inbox, ui, hs, fso, lo,
                 ops, playerVars, probe, library>>

\* isAllowedUser resolves: the entitlement flag is set from it and
\* registerSessionForUser is called on either branch
LuIsAllowedReturn(d, outcome) ==
  /\ lu[d].pc = "isAllowed"
  /\ LET accessCheck == isAllowedUser(SelectAllowed(lu[d].user, outcome), now) IN
     /\ isUserApproved' = [isUserApproved EXCEPT ![d] = accessCheck.allowed]
     /\ lu' = [lu EXCEPT ![d].pc = "register", ![d].accessCheck = accessCheck]
  /\ reg' = [reg EXCEPT ![d] = [pc |-> "select", user |-> lu[d].user, caller |-> "lu"]]
  /\ UNCHANGED <<active_sessions, allowed_users, authSession, now, currentUser,
                 heartbeatIntervalId, sessionChannel, inbox, ui, hs, fso, lo,
                 ops, playerVars, probe, library>>

\* the bookmark, continue-watching and profile loads have resolved: the
\* authenticated view is shown, with the payment prompt when not allowed
LuLoadsReturn(d) ==
  /\ lu[d].pc = "loads"
  /\ ui' = [ui EXCEPT ![d] = IF lu[d].accessCheck.allowed THEN "auth" ELSE "auth_pay"]
  /\ LuEnd(d)
  /\ IF d = PlayerDevice /\ currentUser[d] # NULL
       THEN \E ob \in {"ok", "err"}, oc \in {"ok", "err"} :
              library' = [library EXCEPT
                 !.bookmarks = IF ob = "ok" THEN Loaded(library.user_bookmarks, currentUser[d])
                               ELSE <<>>,
                 !.continueWatching = IF oc = "ok"
                                        THEN Loaded(library.continue_watching, currentUser[d])
                                        ELSE <<>>]
       ELSE library' = library
  /\ UNCHANGED <<active_sessions, allowed_users, authSession, now, currentUser,
                 isUserApproved, heartbeatIntervalId, sessionChannel, inbox, reg,
                 fso, lo, ops, playerVars, probe>>

\* ------------------------------------------- realtime handler, sign-out
stopHeartbeat(hb) == {}

stopSessionRealtimeSubscription(ch) == {}

\* the channel callback runs handleSessionChange on the oldest queued
\* event.  A forced sign-out runs forceLocalSignOut up to its await of
\* supabase.auth.signOut(): heartbeat stopped, channel removed
HandleSessionEvent(d) ==
  /\ inbox[d] # <<>>
  /\ sessionChannel[d] # {}
  /\ LET ch == CHOOSE c \in sessionChannel[d] : TRUE
         msg == handleSessionChange(Head(inbox[d]), ch.device_id) IN
     IF msg = "none"
       THEN /\ inbox' = [inbox EXCEPT ![d] = Tail(@)]
            /\ UNCHANGED <<heartbeatIntervalId, sessionChannel, fso>>
       ELSE /\ Len(fso[d]) < MaxFso
            /\ heartbeatIntervalId' = [heartbeatIntervalId EXCEPT ![d] = stopHeartbeat(@)]
            /\ sessionChannel' = [sessionChannel EXCEPT ![d] = stopSessionRealtimeSubscription(@)]
            /\ inbox' = [inbox EXCEPT ![d] = <<>>]
            /\ fso' = [fso EXCEPT ![d] = Append(@, msg)]
  /\ UNCHANGED <<active_sessions, allowed_users, authSession, now, currentUser,
                 isUserApproved, ui, hs, lu, reg, lo, ops, playerVars, probe,
                 library>>

\* forceLocalSignOut resumes after its await: a failed sign-out is only
\* logged; the message is shown and the unauthenticated view set
FsoSignOutReturn(d, outcome) ==
  /\ fso[d] # <<>>
  /\ authSession' = [authSession EXCEPT ![d] = IF outcome = "ok" THEN NULL ELSE @]
  /\ ui' = [ui EXCEPT ![d] = "unauth"]
  /\ fso' = [fso EXCEPT ![d] = Tail(@)]
  /\ UNCHANGED <<active_sessions, allowed_users, now, currentUser, isUserApproved,
                 heartbeatIntervalId, sessionChannel, inbox, hs, lu, reg, lo,
                 ops, playerVars, probe, library>>

\* --------------------------------------------------------------- logout
\* click on the logout link of the header: endSessionForUser is called
\* for a set currentUser and suspends at its upsert
LogoutClick(d) ==
  /\ ui[d] \in {"auth", "auth_pay"}
  /\ lo[d].pc = "idle"
  /\ lo' = [lo EXCEPT ![d] = [pc |-> IF currentUser[d] # NULL THEN "endUpsert" ELSE "signOut",
                              user |-> currentUser[d]]]
  /\ UNCHANGED <<active_sessions, allowed_users, authSession, now, currentUser,
                 isUserApproved, heartbeatIntervalId, sessionChannel, inbox, ui,
                 hs, lu, reg, fso, ops, playerVars, probe, library>>

\* endSessionForUser: the upsert resolves (or throws), the finally block
\* stops the heartbeat and the subscription, then the handler awaits signOut
LoEndUpsertReturn(d, outcome) ==
  /\ lo[d].pc = "endUpsert"
  /\ LET u == lo[d].user
         after == UpsertRow(active_sessions,
                    [user_id |-> u, device_id |-> getDeviceId(d),
                     is_active |-> "false", session_flag |-> "N"]) IN
     IF outcome = "ok"
       THEN /\ CanBroadcast(u)
            /\ active_sessions' = after
            /\ inbox' = [Broadcast(inbox, ChangeEvent(active_sessions, after, u), u)
                           EXCEPT ![d] = <<>>]
       ELSE /\ active_sessions' = active_sessions
            /\ inbox' = [inbox EXCEPT ![d] = <<>>]
  /\ heartbeatIntervalId' = [heartbeatIntervalId EXCEPT ![d] = stopHeartbeat(@)]
  /\ sessionChannel' = [sessionChannel EXCEPT ![d] = stopSessionRealtimeSubscription(@)]
  /\ lo' = [lo EXCEPT ![d].pc = "signOut"]
  /\ UNCHANGED <<allowed_users, authSession, now, currentUser, isUserApproved, ui,
                 hs, lu, reg, fso, ops, playerVars, probe, library>>

\* endSessionForUser in two steps, for the realtime event that overtakes
\* the answer: first the Datastore applies the upsert and sends the change
\* event to every subscriber, the logging-out browser included, while the
\* call is still suspended
LoEndUpsertApplied(d) ==
  /\ lo[d].pc = "endUpsert"
  /\ LET u == lo[d].user
         after == UpsertRow(active_sessions,
                    [user_id |-> u, device_id |-> getDeviceId(d),
                     is_active |-> "false", session_flag |-> "N"]) IN
     /\ CanBroadcast(u)
     /\ active_sessions' = after
     /\ inbox' = Broadcast(inbox, ChangeEvent(active_sessions, after, u), u)
  /\ lo' = [lo EXCEPT ![d].pc = "endAck"]
  /\ UNCHANGED <<allowed_users, authSession, now, currentUser, isUserApproved,
                 heartbeatIntervalId, sessionChannel, ui, hs, lu, reg, fso, ops,
                 playerVars, probe, library>>

\* then the answer reaches the browser: the finally block stops the
\* heartbeat and the subscription, and the handler awaits signOut
LoEndUpsertAck(d) ==
  /\ lo[d].pc = "endAck"
  /\ inbox' = [inbox EXCEPT ![d] = <<>>]
  /\ heartbeatIntervalId' = [heartbeatIntervalId EXCEPT ![d] = stopHeartbeat(@)]
  /\ sessionChannel' = [sessionChannel EXCEPT ![d] = stopSessionRealtimeSubscription(@)]
  /\ lo' = [lo EXCEPT ![d].pc = "signOut"]
  /\ UNCHANGED <<active_sessions, allowed_users, authSession, now, currentUser,
                 isUserApproved, ui, hs, lu, reg, fso, ops, playerVars, probe,
                 library>>

\* the sign-out resolves: the client state is cleared and the
\* unauthenticated view shown; a thrown sign-out skips all of that
LoSignOutReturn(d, outcome) ==
  /\ lo[d].pc = "signOut"
  /\ lo' = [lo EXCEPT ![d] = LoIdle]
  /\ IF outcome = "throw"
       THEN UNCHANGED <<authSession, currentUser, isUserApproved, ui>>
       ELSE /\ authSession' = [authSession EXCEPT ![d] = IF outcome = "ok" THEN NULL ELSE @]
            /\ currentUser' = [currentUser EXCEPT ![d] = NULL]
            /\ isUserApproved' = [isUserApproved EXCEPT ![d] = FALSE]
            /\ ui' = [ui EXCEPT ![d] = "unauth"]
  /\ library' = IF outcome # "throw" /\ d = PlayerDevice
                  THEN [library EXCEPT !.bookmarks = <<>>, !.continueWatching = <<>>]
                  ELSE library
  /\ UNCHANGED <<active_sessions, allowed_users, now, heartbeatIntervalId,
                 sessionChannel, inbox, hs, lu, reg, fso, ops, playerVars, probe>>

\* ------------------------------------------------------------ heartbeat
\* the columns a tick of the heartbeat hb upserts (last_heartbeat is not
\* modelled)
heartbeatUpsert_m(hb) ==
  [user_id |-> hb.user_id, device_id |-> hb.device_id, is_active |-> "true"]
heartbeatUpsert(hb) == [user_id |-> hb.user_id, device_id |-> hb.device_id]

\* one tick of the 60 s interval whose upsert is applied: device_id and
\* last_heartbeat only
HeartbeatTick(d) ==
  /\ heartbeatIntervalId[d] # {}
  /\ LET hb == CHOOSE h \in heartbeatIntervalId[d] : TRUE
         after == UpsertRow(active_sessions, heartbeatUpsert(hb)) IN
     /\ CanBroadcast(hb.user_id)
     /\ active_sessions' = after
     /\ inbox' = Broadcast(inbox, ChangeEvent(active_sessions, after, hb.user_id), hb.user_id)
  /\ UNCHANGED <<allowed_users, authSession, now, currentUser, isUserApproved,
                 heartbeatIntervalId, sessionChannel, ui, hs, lu, reg, fso, lo,
                 ops, playerVars, probe, library>>

\* ------------------------------------------------------- administrator
AdminPatch(u, patch) ==
  /\ SessionOf(active_sessions, u) # {}
  /\ CanBroadcast(u)
  /\ LET after == UpsertRow(active_sessions, [user_id |-> u] @@ patch) IN
     /\ active_sessions' = after
     /\ inbox' = Broadcast(inbox, ChangeEvent(active_sessions, after, u), u)
  /\ UNCHANGED <<allowed_users, authSession, now, currentUser, isUserApproved,
                 heartbeatIntervalId, sessionChannel, ui, hs, lu, reg, fso, lo,
                 ops, playerVars, probe, library>>

AdminDelete(u) ==
  /\ SessionOf(active_sessions, u) # {}
  /\ CanBroadcast(u)
  /\ LET after == active_sessions \ SessionOf(active_sessions, u) IN
     /\ active_sessions' = after
     /\ inbox' = Broadcast(inbox, ChangeEvent(active_sessions, after, u), u)
  /\ UNCHANGED <<allowed_users, authSession, now, currentUser, isUserApproved,
                 heartbeatIntervalId, sessionChannel, ui, hs, lu, reg, fso, lo,
                 ops, playerVars, probe, library>>

AdminSetEntitlement(u, rows) ==
  /\ allowed_users' = {r \in allowed_users : r.email # u} \cup rows
  /\ allowed_users' # allowed_users
  /\ UNCHANGED <<active_sessions, authSession, now, currentUser, isUserApproved,
                 heartbeatIntervalId, sessionChannel, inbox, ui, hs, lu, reg, fso,
                 lo, ops, playerVars, probe, library>>

\* ---------------------------------------------------------- page reload
\* the tab is reloaded or reopened: every global, timer, channel and
\* suspended call of the page is gone, the AuthService session persists,
\* and initApp calls loadUser again
Reload(d) ==
  /\ currentUser' = [currentUser EXCEPT ![d] = NULL]
  /\ isUserApproved' = [isUserApproved EXCEPT ![d] = FALSE]
  /\ heartbeatIntervalId' = [heartbeatIntervalId EXCEPT ![d] = {}]
  /\ sessionChannel' = [sessionChannel EXCEPT ![d] = {}]
  /\ inbox' = [inbox EXCEPT ![d] = <<>>]
  /\ ui' = [ui EXCEPT ![d] = "loading"]
  /\ hs' = [hs EXCEPT ![d] = HsIdle]
  /\ lu' = [lu EXCEPT ![d] = [LuIdle EXCEPT !.pc = "getUser"]]
  /\ reg' = [reg EXCEPT ![d] = RegIdle]
  /\ fso' = [fso EXCEPT ![d] = <<>>]
  /\ lo' = [lo EXCEPT ![d] = LoIdle]
  /\ IF d = PlayerDevice
       THEN /\ player' = InitPlayerState
            /\ loads' = <<>>
            /\ failovers' = <<>>
            /\ iframe' = InitIframe
            /\ notes' = InitNotes
            /\ library' = [library EXCEPT
                  !.bookmarks = <<>>, !.continueWatching = <<>>,
                  !.calls = [k \in DOMAIN @ |-> [@[k] EXCEPT !.alive = FALSE]]]
       ELSE UNCHANGED <<playerVars, library>>
  /\ <<currentUser[d], isUserApproved[d], heartbeatIntervalId[d], sessionChannel[d],
        inbox[d], ui[d], hs[d], lu[d], reg[d], fso[d], lo[d]>>
       # <<NULL, FALSE, {}, {}, <<>>, "loading", HsIdle, [LuIdle EXCEPT !.pc = "getUser"],
           RegIdle, <<>>, LoIdle>>
  /\ ops < MaxOps
  /\ ops' = ops + 1
  /\ UNCHANGED <<active_sessions, allowed_users, authSession, now, probe>>

\* ------------------------------------------------------------ EmbedPlayer
NumProviders == 4
maxRetries_m == 2 + 1
maxRetries == 2
MediaItems == {[id |-> 1, media_type |-> "movie"], [id |-> 2, media_type |-> "tv"]}

NoUrl == [provider |-> 0, media_type |-> NULL, id |-> 0, season |-> 0, episode |-> 0]
AboutBlank == [provider |-> 0, media_type |-> "about:blank", id |-> 0, season |-> 0, episode |-> 0]

\* the four provider URLs of a title, in the fixed order of the templates
buildEmbedSources(p) ==
  IF p.currentMediaType = "movie"
    THEN [i \in 1..NumProviders |->
            [provider |-> i, media_type |-> "movie", id |-> p.currentMediaId,
             season |-> 0, episode |-> 0]]
  ELSE IF p.currentMediaType = "tv"
    THEN [i \in 1..NumProviders |->
            [provider |-> i, media_type |-> "tv", id |-> p.currentMediaId,
             season |-> p.currentSeason, episode |-> p.currentEpisode]]
  ELSE p.embedSources

\* a closure of loadSource with no pending timer.  Its one-shot load
\* listener is registered exactly as long as no load event came, and the
\* first load event clears the 10 s timer: the listener is registered
\* whenever the timer is armed, and does nothing once it is not
Dead(c) == ~c.armed /\ ~c.retryPending

\* closures are kept in the order of their loadSource calls.  A closure is
\* dropped once it is dead and its onerror handler cannot be called any
\* more; iframe.onerror (a position in loads, 0 = none) follows its closure
Collect(ls, fr) ==
  LET handlerLive == fr.onerror # 0 /\ fr.navigating /\ fr.src.provider # 0
      keep(j) == ~Dead(ls[j]) \/ (j = fr.onerror /\ handlerLive)
      kept == {j \in DOMAIN ls : keep(j)}
      nth(i) == CHOOSE j \in kept : Cardinality({x \in kept : x <= j}) = i
      pos == IF fr.onerror \in kept
               THEN Cardinality({x \in kept : x <= fr.onerror}) ELSE 0 IN
  <<[i \in 1..Cardinality(kept) |-> ls[nth(i)]], [fr EXCEPT !.onerror = pos]>>

\* loadSource(index), index counted from 0: a new closure with its retry
\* counter, its 10 s timer and its one-shot load listener, then attemptLoad.
\* failedCalls counts the handleSourceFailure(index) calls of the closure.
\* The result is the pair of the new loads and the new iframe
loadSource(index, sources, ls, fr) ==
  IF index < 0 \/ index >= Len(sources) THEN <<ls, fr>>
  ELSE <<Append(ls, [index |-> index, source |-> sources[index + 1], retryCount |-> 0,
                     armed |-> TRUE, retryPending |-> FALSE, delay |-> 0, failedCalls |-> 0]),
         [src |-> sources[index + 1], navigating |-> TRUE, onerror |-> Len(ls) + 1]>>

\* the loadSource calls that pointed the embedded document at a source
Logged(index, sources, log) ==
  IF index < 0 \/ index >= Len(sources) THEN log ELSE Append(log, index)

\* handleSourceFailure(currentIndex): the pair of the new pending failover
\* loads and the new count of "All sources failed" notices
handleSourceFailure_m(currentIndex, sources, fo, allFailed) ==
  <<Append(fo, (currentIndex + 1) % Len(sources)), allFailed>>
handleSourceFailure(currentIndex, sources, fo, allFailed) ==
  LET nextIndex == (currentIndex + 1) % Len(sources) IN
  IF nextIndex # currentIndex THEN <<Append(fo, nextIndex), allFailed>>
  ELSE <<fo, allFailed + 1>>

\* ------------------------------------------------- ContinueWatching
\* Positions and elapsed times are counted in instants of 1/Hz second, as
\* (new Date() - watchStartTime) / 1000 is a fraction of a second; total
\* durations are whole seconds.  The thresholds of the source, in seconds:
MinProgressSeconds == 60    \* updateWatchProgress: currentTime < 60 returns
CompletedPercent == 90      \* completed = progressPercent > 90
MovieDuration == 7200       \* estimatedDuration of a movie
EpisodeDuration == 2700     \* estimatedDuration of anything else
TrackerMinSeconds == 60     \* trackPlayerProgress: currentTime > 60
MinHistorySeconds == 30     \* closePlayer: watchDuration > 30
MinStatsSeconds == 60       \* updateWatchTimeStats: duration < 60 returns
TrackerInterval == 30       \* setInterval(trackPlayerProgress, 30000)

\* Math.floor of a time given in instants: whole seconds
floor(h) == h \div Hz

\* progressPercent > 90, with progressPercent = (currentTime / duration) * 100
\* for duration > 0 and 0 otherwise.  The comparison is made on integers:
\* the double nearest to 0.9, times 100, rounds to exactly 90, and a ratio
\* above 0.9 at millisecond resolution is far more than a rounding error
\* above it, so the floating-point result orders as the exact one does
completed_m(currentTime, duration) ==
  duration > 0 /\ currentTime * 100 >= CompletedPercent * duration * Hz
completed(currentTime, duration) ==
  duration > 0 /\ currentTime * 100 > CompletedPercent * duration * Hz

\* a null mediaItem (currentMediaData before the first playback start)
NoMedia == [id |-> 0, media_type |-> NULL]

\* updateWatchProgress(mediaItem, currentTime, duration) up to its await:
\* the set of rows it sends to continue_watching (none, or one) when
\* currentUser is user and the globals are p; the null season and episode
\* of a film are written 0
updateWatchProgress(user, mediaItem, currentTime, duration, p) ==
  IF user = NULL \/ mediaItem = NoMedia \/ currentTime < MinProgressSeconds * Hz THEN {}
  ELSE {[user_id |-> user, media_id |-> mediaItem.id, media_type |-> mediaItem.media_type,
         watch_progress |-> floor(currentTime), total_duration |-> duration,
         completed |-> completed(currentTime, duration),
         season |-> IF mediaItem.media_type = "tv" THEN p.currentSeason ELSE 0,
         episode |-> IF mediaItem.media_type = "tv" THEN p.currentEpisode ELSE 0]}

\* currentMediaData, the mediaItem of the last playback start
currentMediaData(p) == [id |-> p.currentMediaId, media_type |-> p.currentMediaType]

\* estimatedDuration = currentMediaType === 'movie' ? 7200 : 2700
estimatedDuration(p) ==
  IF p.currentMediaType = "movie" THEN MovieDuration ELSE EpisodeDuration

\* recordWatchHistory(mediaItem, season, episode, duration) up to its
\* await: the row it sends to user_watch_history
recordWatchHistory(user, mediaItem, season, episode, duration) ==
  [user_id |-> user, media_id |-> mediaItem.id, media_type |-> mediaItem.media_type,
   season |-> season, episode |-> episode, duration |-> duration]

\* updateWatchTimeStats(mediaType, duration, genreIds) up to its first
\* await: the set of read-modify-write rounds on user_profiles it starts
\* (none, or one adding Math.floor(duration) to total_watch_time)
updateWatchTimeStats(user, mediaType, duration) ==
  IF user = NULL \/ duration = 0 \/ duration < MinStatsSeconds * Hz THEN {}
  ELSE {[user_id |-> user, media_type |-> mediaType, total_watch_time |-> floor(duration)]}

\* the rows of a set (none, or one) appended to a log of rows sent
Sent(log, rows) == IF rows = {} THEN log ELSE Append(log, CHOOSE r \in rows : TRUE)

\* openPlayer(mediaItem) on the player browser
openPlayer(m) ==
  LET d == PlayerDevice IN
  IF currentUser[d] = NULL
    THEN /\ notes' = [notes EXCEPT !.loginError = 1]
         /\ UNCHANGED <<player, loads, failovers, iframe>>
  ELSE IF ~isUserApproved[d]
    THEN /\ notes' = [notes EXCEPT !.paymentModal = TRUE]
         /\ UNCHANGED <<player, loads, failovers, iframe>>
  ELSE LET p1 == [player EXCEPT !.currentMediaType = m.media_type, !.currentMediaId = m.id,
                                !.currentSeason = IF m.media_type = "tv" THEN 1 ELSE @,
                                !.currentEpisode = IF m.media_type = "tv" THEN 1 ELSE @]
           srcs == buildEmbedSources(p1)
           ld == loadSource(0, srcs, loads, iframe)
           gc == Collect(ld[1], ld[2]) IN
       /\ notes.opens < MaxOpens
       /\ Len(notes.loadLog) < MaxLoads
       /\ player' = [p1 EXCEPT !.embedSources = srcs, !.watchStartTime = "set",
                                !.playerInterval = TRUE, !.elapsed = 0,
                                !.sinceInterval = 0]
       /\ loads' = gc[1]
       /\ iframe' = gc[2]
       /\ notes' = [notes EXCEPT !.playerModal = TRUE, !.opens = @ + 1,
                                  !.loadLog = Logged(0, srcs, @)]
       /\ UNCHANGED failovers

UiShown == ui[PlayerDevice] \in {"auth", "auth_pay"}

\* click on the play button of a media card: the handler tests the
\* entitlement flag before it calls openPlayer
CardClick(m) ==
  /\ UiShown
  /\ IF isUserApproved[PlayerDevice]
       THEN openPlayer(m)
       ELSE /\ notes' = [notes EXCEPT !.paymentModal = TRUE]
            /\ UNCHANGED <<player, loads, failovers, iframe>>
  /\ UNCHANGED <<sessVars, probe, library>>

\* click on the hero button, whose handler was chosen by the entitlement
\* flag when the hero was rendered: "play" calls openPlayer, which runs its
\* own checks, "locked" opens the payment modal
HeroClick(m, bound) ==
  /\ UiShown
  /\ IF bound = "play"
       THEN openPlayer(m)
       ELSE /\ notes' = [notes EXCEPT !.paymentModal = TRUE]
            /\ UNCHANGED <<player, loads, failovers, iframe>>
  /\ UNCHANGED <<sessVars, probe, library>>

ClosePaymentModal ==
  /\ notes.paymentModal
  /\ notes' = [notes EXCEPT !.paymentModal = FALSE]
  /\ UNCHANGED <<sessVars, player, loads, failovers, iframe, probe, library>>

\* cleanupPlayer on the globals p (it also blanks the embedded document)
cleanupPlayer_m(p) == [p EXCEPT !.playerInterval = FALSE, !.sinceInterval = 0]
cleanupPlayer(p) ==
  [p EXCEPT !.playerInterval = FALSE, !.watchStartTime = NULL,
            !.elapsed = 0, !.sinceInterval = 0,
            !.currentSeason = IF p.currentMediaType = "tv" THEN 1 ELSE @,
            !.currentEpisode = IF p.currentMediaType = "tv" THEN 1 ELSE @]

\* closePlayer, then cleanupPlayer: after more than 30 s of playback the
\* three writes are started, each behind its own guard; then the progress
\* timer is cleared, the embedded document blanked, season and episode
\* reset for a series.  The answers of the Datastore are only logged.  On
\* the home section the continue-watching list is loaded again
closePlayer ==
  /\ player' = cleanupPlayer(player)
  /\ LET gc == Collect(loads, [iframe EXCEPT !.src = AboutBlank, !.navigating = TRUE]) IN
     /\ loads' = gc[1]
     /\ iframe' = gc[2]
  /\ LET user == currentUser[PlayerDevice]
         watchDuration == player.elapsed
         tv == player.currentMediaType = "tv"
         writes == /\ player.watchStartTime # NULL /\ user # NULL
                   /\ currentMediaData(player) # NoMedia
                   /\ watchDuration > MinHistorySeconds * Hz IN
     notes' = [notes EXCEPT
       !.playerModal = FALSE,
       !.closedAgain = IF notes.playerModal THEN @ ELSE @ + 1,
       !.history = IF writes
                     THEN Append(@, recordWatchHistory(user, currentMediaData(player),
                                      IF tv THEN player.currentSeason ELSE 0,
                                      IF tv THEN player.currentEpisode ELSE 0,
                                      watchDuration))
                     ELSE @,
       !.progress = IF writes
                      THEN Sent(@, updateWatchProgress(user, currentMediaData(player),
                                     watchDuration, estimatedDuration(player), player))
                      ELSE @,
       !.stats = IF writes
                   THEN Sent(@, updateWatchTimeStats(user, player.currentMediaType,
                                                     watchDuration))
                   ELSE @]
  /\ \E home \in {"other", "ok", "err"} :
       library' = IF home = "other" \/ currentUser[PlayerDevice] = NULL THEN library
                  ELSE [library EXCEPT !.continueWatching =
                          IF home = "ok"
                            THEN Loaded(library.continue_watching, currentUser[PlayerDevice])
                            ELSE <<>>]
  /\ UNCHANGED <<sessVars, failovers, probe>>

\* click on the close button (or Escape) of the open player
ClosePlayer == notes.playerModal /\ closePlayer

\* closePlayer on a player that is closed already: a second click on the
\* close button while the modal fades out, or window.NekoFlix.closePlayer()
ClosePlayerAgain ==
  /\ ~notes.playerModal
  /\ notes.opens > 0
  /\ notes.closedAgain < MaxClosedAgain
  /\ closePlayer

\* reloadTVContent with the globals p: the source list is rebuilt and its
\* first source loaded, and the playback clock restarts; the 30 s interval
\* of openPlayer keeps running
reloadTVContent(p) ==
  LET srcs == buildEmbedSources(p)
      ld == loadSource(0, srcs, loads, iframe)
      gc == Collect(ld[1], ld[2]) IN
  /\ notes.episodeChanges < MaxEpisodeChanges
  /\ Len(notes.loadLog) < MaxLoads
  /\ player' = [p EXCEPT !.embedSources = srcs, !.watchStartTime = "set", !.elapsed = 0]
  /\ loads' = gc[1]
  /\ iframe' = gc[2]
  /\ notes' = [notes EXCEPT !.episodeChanges = @ + 1, !.loadLog = Logged(0, srcs, @)]
  /\ UNCHANGED failovers

\* the series controls are shown by openPlayer for a series only
TvControls == notes.playerModal /\ player.currentMediaType = "tv"

\* change of the season select: episode 1 of the chosen season
SeasonChange(s) ==
  /\ TvControls
  /\ reloadTVContent([player EXCEPT !.currentSeason = s, !.currentEpisode = 1])
  /\ UNCHANGED <<sessVars, probe, library>>

\* click on an episode card of the current season
EpisodeClick(e) ==
  /\ TvControls
  /\ reloadTVContent([player EXCEPT !.currentEpisode = e])
  /\ UNCHANGED <<sessVars, probe, library>>

\* wall-clock time passes while a playback session is open: one instant
Elapse ==
  /\ player.watchStartTime # NULL
  /\ player.elapsed < MaxElapsed * Hz
  /\ player' = [player EXCEPT !.elapsed = @ + 1,
                               !.sinceInterval = IF @ < TrackerInterval * Hz THEN @ + 1 ELSE @]
  /\ UNCHANGED <<sessVars, loads, failovers, iframe, notes, probe, library>>

\* the 30 s interval of openPlayer fires, on time or late:
\* trackPlayerProgress
trackPlayerProgress ==
  /\ player.playerInterval
  /\ player.sinceInterval >= TrackerInterval * Hz
  /\ player' = [player EXCEPT !.sinceInterval = 0]
  /\ LET user == currentUser[PlayerDevice]
         currentTime == IF player.watchStartTime # NULL THEN player.elapsed ELSE 0 IN
     notes' = [notes EXCEPT !.progress =
       IF user = NULL \/ currentMediaData(player) = NoMedia \/ iframe.src = NoUrl THEN @
       ELSE IF currentTime > TrackerMinSeconds * Hz
         THEN Sent(@, updateWatchProgress(user, currentMediaData(player), currentTime,
                                          estimatedDuration(player), player))
       ELSE @]
  /\ UNCHANGED <<sessVars, loads, failovers, iframe, probe, library>>

\* the embedded document fires "load": every one-shot listener still
\* registered clears the 10 s timer of its loadSource call (clearTimeout)
IframeLoad ==
  /\ iframe.navigating
  /\ LET ls == [k \in DOMAIN loads |-> [loads[k] EXCEPT !.armed = FALSE]]
         gc == Collect(ls, [iframe EXCEPT !.navigating = FALSE]) IN
     /\ loads' = gc[1]
     /\ iframe' = gc[2]
  /\ UNCHANGED <<sessVars, player, failovers, notes, probe, library>>

\* the delay of setTimeout(attemptLoad, 1000 * retryCount), in ms
retryDelay(retryCount) == 1000 * retryCount

\* the embedded document fires "error" while a provider URL is loading:
\* iframe.onerror is the handler of the closure that last ran attemptLoad
IframeError ==
  /\ iframe.navigating
  /\ iframe.src.provider # 0
  /\ iframe.onerror # 0
  /\ notes.errors < MaxErrors
  /\ LET k == iframe.onerror
         retryCount == loads[k].retryCount + 1
         hf == handleSourceFailure(loads[k].index, player.embedSources, failovers,
                                   notes.allFailed)
         ls == [loads EXCEPT ![k].retryCount = retryCount,
                             ![k].retryPending = (retryCount <= maxRetries),
                             ![k].delay = IF retryCount <= maxRetries
                                            THEN retryDelay(retryCount) ELSE @,
                             ![k].failedCalls = IF retryCount <= maxRetries THEN @ ELSE @ + 1]
         gc == Collect(ls, [iframe EXCEPT !.navigating = FALSE]) IN
     /\ loads' = gc[1]
     /\ iframe' = gc[2]
     /\ IF retryCount <= maxRetries
          THEN /\ notes' = [notes EXCEPT !.errors = @ + 1]
               /\ UNCHANGED failovers
          ELSE /\ failovers' = hf[1]
               /\ notes' = [notes EXCEPT !.allFailed = hf[2], !.errors = @ + 1]
  /\ UNCHANGED <<sessVars, player, probe, library>>

\* setTimeout(attemptLoad, 1000 * retryCount) of closure k fires
RetryFire(k) ==
  /\ k \in DOMAIN loads
  /\ loads[k].retryPending
  /\ LET gc == Collect([loads EXCEPT ![k].retryPending = FALSE, ![k].delay = 0],
                       [src |-> loads[k].source, navigating |-> TRUE, onerror |-> k]) IN
     /\ loads' = gc[1]
     /\ iframe' = gc[2]
  /\ UNCHANGED <<sessVars, player, failovers, notes, probe, library>>

\* the 10 s timer of closure k fires (timers of equal delay fire in the
\* order they were armed).  frames is iframe.contentWindow.length
LoadTimeoutFire(k, frames) ==
  /\ k \in DOMAIN loads
  /\ loads[k].armed
  /\ \A j \in 1..(k - 1) : ~loads[j].armed
  /\ LET hf == handleSourceFailure(loads[k].index, player.embedSources, failovers,
                                   notes.allFailed)
         failed == iframe.src # NoUrl /\ frames = 0
         gc == Collect([loads EXCEPT ![k].armed = FALSE,
                                     ![k].failedCalls = IF failed THEN @ + 1 ELSE @],
                       iframe) IN
     /\ loads' = gc[1]
     /\ iframe' = gc[2]
     /\ IF failed
          THEN /\ failovers' = hf[1]
               /\ notes' = [notes EXCEPT !.allFailed = hf[2]]
          ELSE UNCHANGED <<failovers, notes>>
  /\ UNCHANGED <<sessVars, player, probe, library>>

\* setTimeout(() => loadSource(nextIndex), 1000) fires
FailoverFire ==
  /\ failovers # <<>>
  /\ Len(notes.loadLog) < MaxLoads
  /\ LET ld == loadSource(Head(failovers), player.embedSources, loads, iframe)
         gc == Collect(ld[1], ld[2]) IN
     /\ loads' = gc[1]
     /\ iframe' = gc[2]
  /\ notes' = [notes EXCEPT !.loadLog = Logged(Head(failovers), player.embedSources, @)]
  /\ failovers' = Tail(failovers)
  /\ UNCHANGED <<sessVars, player, probe, library>>

\* click on a source button of the open player (populateSourceButtons):
\* loadSource(index) on the current list
SourceButtonClick(index) ==
  /\ notes.playerModal
  /\ index + 1 \in DOMAIN player.embedSources
  /\ Len(notes.loadLog) < MaxLoads
  /\ LET ld == loadSource(index, player.embedSources, loads, iframe)
         gc == Collect(ld[1], ld[2]) IN
     /\ loads' = gc[1]
     /\ iframe' = gc[2]
  /\ notes' = [notes EXCEPT !.loadLog = Logged(index, player.embedSources, @)]
  /\ UNCHANGED <<sessVars, player, failovers, probe, library>>

\* ------------------------------------------------- session specification
SessionStep(d) ==
  \/ \E u \in Users : SigninSubmit(d, u)
  \/ \E o \in Outcomes : SigninAuthReturn(d, o)
  \/ \E o \in Outcomes : RegSelectReturn(d, o)
  \/ \E o \in Outcomes : RegSignOutReturn(d, o)
  \/ \E o \in Outcomes : RegUpsertReturn(d, o)
  \/ \E o \in Outcomes : LuGetUserReturn(d, o)
  \/ \E o \in Outcomes : LuIsAllowedReturn(d, o)
  \/ LuLoadsReturn(d)
  \/ HandleSessionEvent(d)
  \/ \E o \in Outcomes : FsoSignOutReturn(d, o)
  \/ LogoutClick(d)
  \/ \E o \in Outcomes : LoEndUpsertReturn(d, o)
  \/ \E o \in Outcomes : LoSignOutReturn(d, o)
  \/ HeartbeatTick(d)
  \/ Reload(d)

AdminStep ==
  \/ \E u \in Users, p \in AdminPatches : AdminPatch(u, p)
  \/ \E u \in Users : AdminDelete(u)
  \/ \E u \in Users : \E rows \in EntitlementChoices(u) : AdminSetEntitlement(u, rows)

\* the administrator ends a session: the row is deleted, or disabled the
\* way a logout disables it
AdminEnd ==
  \/ \E u \in Users : AdminPatch(u, [is_active |-> "false", session_flag |-> "N"])
  \/ \E u \in Users : AdminDelete(u)

\* two browsers of the same user, and the administrator
Next ==
  \/ \E d \in Devices : SessionStep(d)
  \/ AdminEnd

Spec == Init /\ [][Next]_vars

\* --------------------------------------------- gate specification
\* one browser with its sign-in, sign-out and play actions, and the
\* administrator
GateStep ==
  \/ \E m \in MediaItems : CardClick(m)
  \/ \E m \in MediaItems, bound \in {"play", "locked"} : HeroClick(m, bound)
  \/ ClosePaymentModal
  \/ ClosePlayer

NextGate ==
  \/ SessionStep(PlayerDevice)
  \/ AdminStep
  \/ GateStep

\* page load on the player browser; the session row of the user is absent
\* or left active by the other browser
InitGate ==
  /\ active_sessions \in {{}, {[user_id |-> "u1", device_id |-> "B",
                                 is_active |-> "true", session_flag |-> "S"]}}
  /\ allowed_users = {}
  /\ authSession = [d \in Devices |-> NULL]
  /\ now = InitNow
  /\ InitClient
  /\ InitPlayerVars
  /\ probe = NoProbe

SpecGate == InitGate /\ [][NextGate]_vars

\* ------------------------------------------- player specification
\* the player browser signed in, registered and entitled, as loadUser
\* leaves it
InitPlayer ==
  /\ active_sessions = {[user_id |-> "u1", device_id |-> PlayerDevice,
                         is_active |-> "true", session_flag |-> "S"]}
  /\ allowed_users = {[email |-> "u1", approved |-> "true", expiry_date |-> NoExpiry]}
  /\ authSession = [d \in Devices |-> IF d = PlayerDevice THEN "u1" ELSE NULL]
  /\ now = InitNow
  /\ currentUser = [d \in Devices |-> IF d = PlayerDevice THEN "u1" ELSE NULL]
  /\ isUserApproved = [d \in Devices |-> d = PlayerDevice]
  /\ heartbeatIntervalId = [d \in Devices |->
        IF d = PlayerDevice THEN {[user_id |-> "u1", device_id |-> d]} ELSE {}]
  /\ sessionChannel = [d \in Devices |->
        IF d = PlayerDevice THEN {[user_id |-> "u1", device_id |-> d]} ELSE {}]
  /\ inbox = [d \in Devices |-> <<>>]
  /\ ui = [d \in Devices |-> IF d = PlayerDevice THEN "auth" ELSE "loading"]
  /\ hs = [d \in Devices |-> HsIdle]
  /\ lu = [d \in Devices |-> IF d = PlayerDevice THEN LuIdle ELSE [LuIdle EXCEPT !.pc = "getUser"]]
  /\ reg = [d \in Devices |-> RegIdle]
  /\ fso = [d \in Devices |-> <<>>]
  /\ lo = [d \in Devices |-> LoIdle]
  /\ ops = 1
  /\ InitPlayerVars
  /\ probe = NoProbe

PlayerStep ==
  \/ \E m \in MediaItems : CardClick(m)
  \/ ClosePlayer
  \/ IframeLoad
  \/ IframeError
  \/ \E k \in DOMAIN loads : RetryFire(k)
  \/ \E k \in DOMAIN loads, frames \in {0, 1} : LoadTimeoutFire(k, frames)
  \/ FailoverFire

SpecPlayer == InitPlayer /\ [][PlayerStep]_vars

\* ------------------------------- source loads and failure detectors
\* the player with every way to start a load (playback start, source
\* button, season and episode change, failover) and the 10 s timers; the
\* embedded document gives no error signal
SourcesStep ==
  \/ \E m \in MediaItems : CardClick(m)
  \/ ClosePlayer
  \/ IframeLoad
  \/ \E k \in DOMAIN loads, frames \in {0, 1} : LoadTimeoutFire(k, frames)
  \/ FailoverFire
  \/ \E i \in 0..(NumProviders - 1) : SourceButtonClick(i)
  \/ \E s \in 1..MaxSeason : SeasonChange(s)
  \/ \E e \in 1..MaxEpisode : EpisodeClick(e)

SpecSources == InitPlayer /\ [][SourcesStep]_vars

\* ----------------------------------------------- closing the player
CloseStep ==
  \/ \E m \in MediaItems : CardClick(m)
  \/ Elapse
  \/ ClosePlayer
  \/ ClosePlayerAgain
  \/ IframeLoad

SpecClose == InitPlayer /\ [][CloseStep]_vars

\* ------------------------------------------ playback and its records
\* the cards of the trending grid: films, series and people, as the
\* trending list is rendered unfiltered
TrendingItems == MediaItems \cup {[id |-> 3, media_type |-> "person"]}

WatchStep ==
  \/ \E m \in TrendingItems : CardClick(m)
  \/ ClosePlayer
  \/ Elapse
  \/ trackPlayerProgress
  \/ \E s \in 1..MaxSeason : SeasonChange(s)
  \/ \E e \in 1..MaxEpisode : EpisodeClick(e)
  \/ IframeLoad

SpecWatch == InitPlayer /\ [][WatchStep]_vars

\* ------------------------------------- playback across a sign-out
\* the player browser signed in; playback with its 30 s tracker, and a
\* sign-out: by the logout link, or forced by the administrator ending
\* the session
SignOutStep ==
  \/ \E m \in MediaItems : CardClick(m)
  \/ ClosePlayer
  \/ Elapse
  \/ trackPlayerProgress
  \/ IframeLoad
  \/ AdminEnd
  \/ HandleSessionEvent(PlayerDevice)
  \/ \E o \in Outcomes : FsoSignOutReturn(PlayerDevice, o)
  \/ LogoutClick(PlayerDevice)
  \/ \E o \in Outcomes : LoEndUpsertReturn(PlayerDevice, o)
  \/ \E o \in Outcomes : LoSignOutReturn(PlayerDevice, o)

SpecSignOut == InitPlayer /\ [][SignOutStep]_vars

\* ------------------------------------- isAllowedUser on every response
\* isAllowedUser(email) after its query resolved to resp at the instant t
InitAllowed ==
  /\ active_sessions = {}
  /\ allowed_users = {}
  /\ authSession = [d \in Devices |-> NULL]
  /\ now = InitNow
  /\ InitClient
  /\ InitPlayerVars
  /\ probe \in [fn : {"isAllowedUser"}, resp : AllowedResponses, t : 0..MaxNow,
                out : {NoCheck}, done : {FALSE}]

ApplyIsAllowedUser ==
  /\ probe.fn = "isAllowedUser"
  /\ ~probe.done
  /\ probe' = [probe EXCEPT !.out = isAllowedUser(probe.resp, probe.t), !.done = TRUE]
  /\ UNCHANGED <<sessVars, playerVars, library>>

SpecAllowed == InitAllowed /\ [][ApplyIsAllowedUser]_vars

\* ----------------------------- updateWatchProgress on every position
\* total durations handed to updateWatchProgress alone, in seconds
ProbeDurations == {0, 100, 500}

InitProgress ==
  /\ active_sessions = {}
  /\ allowed_users = {}
  /\ authSession = [d \in Devices |-> NULL]
  /\ now = InitNow
  /\ InitClient
  /\ InitPlayerVars
  /\ probe \in [fn : {"updateWatchProgress"}, user : Users \cup {NULL},
                mediaItem : MediaItems \cup {NoMedia}, currentTime : 0..(MaxPosition * Hz),
                duration : ProbeDurations, out : {{}}, done : {FALSE}]

ApplyUpdateWatchProgress ==
  /\ probe.fn = "updateWatchProgress"
  /\ ~probe.done
  /\ probe' = [probe EXCEPT !.out = updateWatchProgress(probe.user, probe.mediaItem,
                                       probe.currentTime, probe.duration, player),
                            !.done = TRUE]
  /\ UNCHANGED <<sessVars, playerVars, library>>

SpecProgress == InitProgress /\ [][ApplyUpdateWatchProgress]_vars

\* ------------------------------ handleSourceFailure on every list
\* a source list of n entries
SourceList(n) ==
  [i \in 1..n |-> [provider |-> i, media_type |-> "movie", id |-> 1,
                   season |-> 0, episode |-> 0]]

\* handleSourceFailure(currentIndex) on a list of count sources, with the
\* failover loads fo pending and allFailed notices shown so far
InitFailure ==
  /\ active_sessions = {}
  /\ allowed_users = {}
  /\ authSession = [d \in Devices |-> NULL]
  /\ now = InitNow
  /\ InitClient
  /\ InitPlayerVars
  /\ probe \in {p \in [fn : {"handleSourceFailure"}, currentIndex : 0..(MaxSources - 1),
                         count : 1..MaxSources,
                         fo : {<<>>} \cup {<<k>> : k \in 0..(MaxSources - 1)},
                         allFailed : {0, 1}, out : {<<>>}, done : {FALSE}] :
                  p.currentIndex < p.count /\ \A i \in DOMAIN p.fo : p.fo[i] < p.count}

ApplyHandleSourceFailure ==
  /\ probe.fn = "handleSourceFailure"
  /\ ~probe.done
  /\ probe' = [probe EXCEPT !.out = handleSourceFailure(probe.currentIndex,
                                       SourceList(probe.count), probe.fo, probe.allFailed),
                            !.done = TRUE]
  /\ UNCHANGED <<sessVars, playerVars, library>>

SpecFailure == InitFailure /\ [][ApplyHandleSourceFailure]_vars

\* --------------------------------------- getDeviceId on localStorage
\* getDeviceId() on a storage scope whose item nf_device_id is store (the
\* empty set when the item is absent, else the set of its value), with
\* generated the identifier crypto.randomUUID() or its fallback would
\* produce, and setItemOk telling whether localStorage.setItem succeeds.
\* The result is the new item and the outcome: the identifier returned,
\* or the exception of setItem, which nothing catches
getDeviceIdOn_m(store, generated, setItemOk) ==
  IF setItemOk THEN [store |-> {generated}, ok |-> TRUE, id |-> generated]
  ELSE [store |-> store, ok |-> FALSE, id |-> 0]
getDeviceIdOn(store, generated, setItemOk) ==
  IF store # {} THEN [store |-> store, ok |-> TRUE, id |-> CHOOSE d \in store : TRUE]
  ELSE IF setItemOk THEN [store |-> {generated}, ok |-> TRUE, id |-> generated]
  ELSE [store |-> store, ok |-> FALSE, id |-> 0]

\* the two callers of getDeviceId
DeviceIdCallers == {"registerSessionForUser", "endSessionForUser"}

\* a fresh storage scope, or one holding the identifier (numbered 0) that
\* an earlier page lifetime stored
InitDevice ==
  /\ active_sessions = {}
  /\ allowed_users = {}
  /\ authSession = [d \in Devices |-> NULL]
  /\ now = InitNow
  /\ InitClient
  /\ InitPlayerVars
  /\ probe \in [fn : {"getDeviceId"}, store : {{}, {0}}, next : {1}, log : {<<>>}]

\* one call of getDeviceId by caller.  The call in registerSessionForUser
\* stands before its try, so an exception leaves registerSessionForUser;
\* the call in endSessionForUser stands inside its try, whose catch logs
\* the exception, and the upsert of the closed session is skipped
CallGetDeviceId(caller, setItemOk) ==
  /\ probe.fn = "getDeviceId"
  /\ Len(probe.log) < MaxCalls
  /\ LET r == getDeviceIdOn(probe.store, probe.next, setItemOk) IN
     probe' = [probe EXCEPT
       !.store = r.store,
       !.next = IF probe.store = {} THEN @ + 1 ELSE @,
       !.log = Append(@, [caller |-> caller, ok |-> r.ok, id |-> r.id,
                          escaped |-> ~r.ok /\ caller = "registerSessionForUser",
                          before |-> probe.store])]
  /\ UNCHANGED <<sessVars, playerVars, library>>

NextDevice == \E caller \in DeviceIdCallers, setItemOk \in BOOLEAN :
                 CallGetDeviceId(caller, setItemOk)

SpecDevice == InitDevice /\ [][NextDevice]_vars

\* ------------------------------------ loadUser from its entitlement check
\* the player browser signed in at the AuthService, loadUser suspended at
\* isAllowedUser; any entitlement row, any instant, the flag as an earlier
\* check left it, and the session row absent or active on the other browser
InitEntitled ==
  /\ active_sessions \in {{}, {[user_id |-> "u1", device_id |-> "B",
                                 is_active |-> "true", session_flag |-> "S"]}}
  /\ allowed_users \in {{}} \cup {{r} : r \in AllowedRows}
  /\ authSession = [d \in Devices |-> IF d = PlayerDevice THEN "u1" ELSE NULL]
  /\ now \in 0..MaxNow
  /\ currentUser = [d \in Devices |-> IF d = PlayerDevice THEN "u1" ELSE NULL]
  /\ isUserApproved \in {[d \in Devices |-> d = PlayerDevice /\ b] : b \in BOOLEAN}
  /\ heartbeatIntervalId = [d \in Devices |-> {}]
  /\ sessionChannel = [d \in Devices |-> {}]
  /\ inbox = [d \in Devices |-> <<>>]
  /\ ui = [d \in Devices |-> "loading"]
  /\ hs = [d \in Devices |-> HsIdle]
  /\ lu = [d \in Devices |-> IF d = PlayerDevice
                                THEN [LuIdle EXCEPT !.pc = "isAllowed", !.user = "u1"]
                                ELSE LuIdle]
  /\ reg = [d \in Devices |-> RegIdle]
  /\ fso = [d \in Devices |-> <<>>]
  /\ lo = [d \in Devices |-> LoIdle]
  /\ ops = 1
  /\ InitPlayerVars
  /\ probe = NoProbe

NextEntitled ==
  \/ \E o \in Outcomes : LuIsAllowedReturn(PlayerDevice, o)
  \/ \E o \in Outcomes : RegSelectReturn(PlayerDevice, o)
  \/ \E o \in Outcomes : RegSignOutReturn(PlayerDevice, o)
  \/ \E o \in Outcomes : RegUpsertReturn(PlayerDevice, o)
  \/ LuLoadsReturn(PlayerDevice)

SpecEntitled == InitEntitled /\ [][NextEntitled]_vars

\* --------------------------------------- the realtime handler on any event
\* the payloads a change of an active_sessions row can carry
HandlerPayloads ==
  {[eventType |-> e, new |-> {r}, old |-> {}] : e \in {"INSERT", "UPDATE"}, r \in SessionRows}
  \cup {[eventType |-> "DELETE", new |-> {}, old |-> o] :
          o \in {{}} \cup {{r} : r \in SessionRows}}

\* the player browser Active (heartbeat and subscription running, the
\* authenticated view shown) with one event delivered to its channel
InitHandler ==
  /\ active_sessions = {}
  /\ allowed_users = {[email |-> "u1", approved |-> "true", expiry_date |-> NoExpiry]}
  /\ authSession = [d \in Devices |-> IF d = PlayerDevice THEN "u1" ELSE NULL]
  /\ now = InitNow
  /\ currentUser = [d \in Devices |-> IF d = PlayerDevice THEN "u1" ELSE NULL]
  /\ isUserApproved = [d \in Devices |-> d = PlayerDevice]
  /\ heartbeatIntervalId = [d \in Devices |->
        IF d = PlayerDevice THEN {[user_id |-> "u1", device_id |-> getDeviceId(d)]} ELSE {}]
  /\ sessionChannel = [d \in Devices |->
        IF d = PlayerDevice THEN {[user_id |-> "u1", device_id |-> getDeviceId(d)]} ELSE {}]
  /\ \E payload \in HandlerPayloads :
        inbox = [d \in Devices |-> IF d = PlayerDevice THEN <<payload>> ELSE <<>>]
  /\ ui = [d \in Devices |-> IF d = PlayerDevice THEN "auth" ELSE "loading"]
  /\ hs = [d \in Devices |-> HsIdle]
  /\ lu = [d \in Devices |-> LuIdle]
  /\ reg = [d \in Devices |-> RegIdle]
  /\ fso = [d \in Devices |-> <<>>]
  /\ lo = [d \in Devices |-> LoIdle]
  /\ ops = 1
  /\ InitPlayerVars
  /\ probe = NoProbe

NextHandler ==
  \/ HandleSessionEvent(PlayerDevice)
  \/ \E o \in Outcomes : FsoSignOutReturn(PlayerDevice, o)

SpecHandler == InitHandler /\ [][NextHandler]_vars

\* ------------------------------------------- the heartbeat on any row
\* both browsers Active for the same user (the outcome of a registration
\* race), their heartbeats running, with the session row in any state
\* another writer can have left it in (or deleted) and the realtime event
\* of that write not delivered
InitHeartbeat ==
  /\ active_sessions \in {{}} \cup {{r} : r \in SessionRows}
  /\ allowed_users = {[email |-> "u1", approved |-> "true", expiry_date |-> NoExpiry]}
  /\ authSession = [d \in Devices |-> "u1"]
  /\ now = InitNow
  /\ currentUser = [d \in Devices |-> "u1"]
  /\ isUserApproved = [d \in Devices |-> TRUE]
  /\ heartbeatIntervalId = [d \in Devices |-> {[user_id |-> "u1", device_id |-> getDeviceId(d)]}]
  /\ sessionChannel = [d \in Devices |-> {[user_id |-> "u1", device_id |-> getDeviceId(d)]}]
  /\ inbox = [d \in Devices |-> <<>>]
  /\ ui = [d \in Devices |-> "auth"]
  /\ hs = [d \in Devices |-> HsIdle]
  /\ lu = [d \in Devices |-> LuIdle]
  /\ reg = [d \in Devices |-> RegIdle]
  /\ fso = [d \in Devices |-> <<>>]
  /\ lo = [d \in Devices |-> LoIdle]
  /\ ops = MaxOps
  /\ InitPlayerVars
  /\ probe = NoProbe

NextHeartbeat ==
  \E d \in Devices :
    \/ HeartbeatTick(d)
    \/ HandleSessionEvent(d)
    \/ \E o \in Outcomes : FsoSignOutReturn(d, o)

SpecHeartbeat == InitHeartbeat /\ [][NextHeartbeat]_vars

\* ------------------------------------------- two registrations at once
\* both browsers have signed in as the same user and handleSignin has
\* called registerSessionForUser on each, suspended at its select; the
\* session row is absent or in any stored state.  The datastore answers
\* every select and upsert, so that a second success can only come from
\* the order of the reads and the writes
InitRace ==
  /\ active_sessions \in {{}} \cup {{r} : r \in SessionRows}
  /\ allowed_users = {[email |-> "u1", approved |-> "true", expiry_date |-> NoExpiry]}
  /\ authSession = [d \in Devices |-> "u1"]
  /\ now = InitNow
  /\ currentUser = [d \in Devices |-> NULL]
  /\ isUserApproved = [d \in Devices |-> FALSE]
  /\ heartbeatIntervalId = [d \in Devices |-> {}]
  /\ sessionChannel = [d \in Devices |-> {}]
  /\ inbox = [d \in Devices |-> <<>>]
  /\ ui = [d \in Devices |-> "unauth"]
  /\ hs = [d \in Devices |-> [pc |-> "register", user |-> "u1"]]
  /\ lu = [d \in Devices |-> LuIdle]
  /\ reg = [d \in Devices |-> [pc |-> "select", user |-> "u1", caller |-> "hs"]]
  /\ fso = [d \in Devices |-> <<>>]
  /\ lo = [d \in Devices |-> LoIdle]
  /\ ops = MaxOps
  /\ InitPlayerVars
  /\ probe = NoProbe

NextRace ==
  \E d \in Devices :
    \/ RegSelectReturn(d, "ok")
    \/ \E o \in Outcomes : RegSignOutReturn(d, o)
    \/ RegUpsertReturn(d, "ok")
    \/ HeartbeatTick(d)

SpecRace == InitRace /\ [][NextRace]_vars

\* ------------------------------------------- bookmarks, continue watching
MaxRemote == 1                 \* remote calls in flight at once

\* Array.prototype.findIndex on the id: the first position, 0 for -1
findIndex(list, id) ==
  IF \E i \in DOMAIN list : list[i].id = id
    THEN CHOOSE i \in DOMAIN list :
           list[i].id = id /\ \A j \in 1..(i - 1) : list[j].id # id
    ELSE 0

splice(list, i) == SubSeq(list, 1, i - 1) \o SubSeq(list, i + 1, Len(list))

\* list.filter(item => item.id !== id)
RECURSIVE filterOut(_, _)
filterOut(list, id) ==
  IF list = <<>> THEN <<>>
  ELSE IF Head(list).id = id THEN filterOut(Tail(list), id)
       ELSE <<Head(list)>> \o filterOut(Tail(list), id)

\* rows of a table without those of user u for the title id
RECURSIVE deleteRows(_, _, _)
deleteRows(table, u, id) ==
  IF table = <<>> THEN <<>>
  ELSE IF Head(table).user_id = u /\ Head(table).media.id = id
         THEN deleteRows(Tail(table), u, id)
         ELSE <<Head(table)>> \o deleteRows(Tail(table), u, id)

RemoteCall(fn, m) ==
  [fn |-> fn, user_id |-> currentUser[PlayerDevice], media |-> m, alive |-> TRUE]

\* the guards of toggleBookmark, with the flag test dropped
toggleBookmarkGuards_m(user, approved) ==
  IF user = NULL THEN "login" ELSE "toggle"
toggleBookmarkGuards(user, approved) ==
  IF user = NULL THEN "login" ELSE IF ~approved THEN "payment" ELSE "toggle"

\* toggleBookmark(mediaItem, mediaType, button): nothing without a current
\* user, the payment modal without the entitlement flag, else the title is
\* spliced out of or pushed onto the list and the matching remote call is
\* started (it suspends at its await)
toggleBookmark(m) ==
  LET g == toggleBookmarkGuards(currentUser[PlayerDevice], isUserApproved[PlayerDevice])
      i == findIndex(library.bookmarks, m.id) IN
  /\ notes' = [notes EXCEPT !.paymentModal = IF g = "payment" THEN TRUE ELSE @,
                            !.loginError = IF g = "login" THEN 1 ELSE @]
  /\ library' =
       IF g # "toggle" THEN library
       ELSE IF i > 0
         THEN [library EXCEPT !.bookmarks = splice(@, i),
                              !.calls = Append(@, RemoteCall("removeBookmarkFromSupabase", m))]
         ELSE [library EXCEPT !.bookmarks = Append(@, m),
                              !.calls = Append(@, RemoteCall("addBookmarkToSupabase", m))]

\* a toggle now would start a remote call
StartsCall ==
  toggleBookmarkGuards(currentUser[PlayerDevice], isUserApproved[PlayerDevice]) = "toggle"

\* window.NekoFlix.toggleBookmark(mediaItem, mediaType), callable by any
\* script of the page in any view
NekoFlixToggleBookmark(m) ==
  /\ StartsCall => Len(library.calls) < MaxRemote
  /\ toggleBookmark(m)
  /\ UNCHANGED <<sessVars, player, loads, failovers, iframe, probe>>

\* click on the bookmark button of a media card: the handler tests the
\* entitlement flag before it calls toggleBookmark
BookmarkButtonClick(m) ==
  /\ UiShown
  /\ StartsCall => Len(library.calls) < MaxRemote
  /\ IF isUserApproved[PlayerDevice]
       THEN toggleBookmark(m)
       ELSE /\ notes' = [notes EXCEPT !.paymentModal = TRUE]
            /\ library' = library
  /\ UNCHANGED <<sessVars, player, loads, failovers, iframe, probe>>

\* removeContinueWatching(mediaId) up to its await: it returns without a
\* current user and otherwise suspends at its delete
removeContinueWatchingStart(user, lib, id) ==
  IF user = NULL THEN lib
  ELSE [lib EXCEPT !.calls =
          Append(@, [fn |-> "removeContinueWatching", user_id |-> user,
                     media |-> [id |-> id, media_type |-> NULL], alive |-> TRUE])]

\* click on the remove button of a continue-watching card
RemoveButtonClick(id) ==
  /\ UiShown
  /\ \E i \in DOMAIN library.continueWatching : library.continueWatching[i].id = id
  /\ Len(library.calls) < MaxRemote
  /\ library' = removeContinueWatchingStart(currentUser[PlayerDevice], library, id)
  /\ UNCHANGED <<sessVars, playerVars, probe>>

\* what removeContinueWatching does to the list when its delete resolves
removeContinueWatchingResume_m(list, id, outcome) == filterOut(list, id)
removeContinueWatchingResume(list, id, outcome) ==
  IF outcome = "ok" THEN filterOut(list, id) ELSE list

\* the remote call k resolves.  An applied insert adds the row unless the
\* user holds it already, an applied delete removes the rows of the user
\* for the title.  The two bookmark calls only log a failure;
\* removeContinueWatching filters its title out of the list on success and
\* leaves the list on a failure
RemoteReturn(k, outcome) ==
  /\ k \in DOMAIN library.calls
  /\ LET c == library.calls[k]
         ub == library.user_bookmarks
         cw == library.continue_watching
         held == \E j \in DOMAIN ub : ub[j].user_id = c.user_id /\ ub[j].media.id = c.media.id IN
     library' = [library EXCEPT
        !.calls = splice(@, k),
        !.user_bookmarks =
           IF outcome # "ok" THEN @
           ELSE IF c.fn = "addBookmarkToSupabase"
                  THEN IF held THEN @ ELSE Append(@, [user_id |-> c.user_id, media |-> c.media])
           ELSE IF c.fn = "removeBookmarkFromSupabase"
                  THEN deleteRows(@, c.user_id, c.media.id)
           ELSE @,
        !.continue_watching =
           IF outcome = "ok" /\ c.fn = "removeContinueWatching"
             THEN deleteRows(@, c.user_id, c.media.id) ELSE @,
        !.continueWatching =
           IF c.fn = "removeContinueWatching" /\ c.alive
             THEN removeContinueWatchingResume(@, c.media.id, outcome) ELSE @]
  /\ UNCHANGED <<sessVars, playerVars, probe>>

\* the tables a signed-in user can have: bookmarks and continue-watching
\* rows of the user, and a row of another user
LibraryRow(u, m) == [user_id |-> u, media |-> m]
BookmarkTables ==
  {<<>>, <<LibraryRow("u1", [id |-> 1, media_type |-> "movie"])>>}
ContinueTables ==
  {<<>>,
   <<LibraryRow("u1", [id |-> 1, media_type |-> "movie"])>>,
   <<LibraryRow("u1", [id |-> 1, media_type |-> "movie"]),
     LibraryRow("u1", [id |-> 2, media_type |-> "tv"])>>}

\* the player browser signed in and registered, entitled or not, as
\* loadUser leaves it with both lists loaded
InitLibrarySpec ==
  /\ active_sessions = {[user_id |-> "u1", device_id |-> PlayerDevice,
                         is_active |-> "true", session_flag |-> "S"]}
  /\ \E a \in BOOLEAN :
       /\ allowed_users = {[email |-> "u1", approved |-> IF a THEN "true" ELSE "false",
                            expiry_date |-> NoExpiry]}
       /\ isUserApproved = [d \in Devices |-> d = PlayerDevice /\ a]
       /\ ui = [d \in Devices |-> IF d # PlayerDevice THEN "loading"
                                   ELSE IF a THEN "auth" ELSE "auth_pay"]
  /\ authSession = [d \in Devices |-> IF d = PlayerDevice THEN "u1" ELSE NULL]
  /\ now = InitNow
  /\ currentUser = [d \in Devices |-> IF d = PlayerDevice THEN "u1" ELSE NULL]
  /\ heartbeatIntervalId = [d \in Devices |->
        IF d = PlayerDevice THEN {[user_id |-> "u1", device_id |-> d]} ELSE {}]
  /\ sessionChannel = [d \in Devices |->
        IF d = PlayerDevice THEN {[user_id |-> "u1", device_id |-> d]} ELSE {}]
  /\ inbox = [d \in Devices |-> <<>>]
  /\ hs = [d \in Devices |-> HsIdle]
  /\ lu = [d \in Devices |-> IF d = PlayerDevice THEN LuIdle ELSE [LuIdle EXCEPT !.pc = "getUser"]]
  /\ reg = [d \in Devices |-> RegIdle]
  /\ fso = [d \in Devices |-> <<>>]
  /\ lo = [d \in Devices |-> LoIdle]
  /\ ops = MaxOps
  /\ player = InitPlayerState
  /\ loads = <<>>
  /\ failovers = <<>>
  /\ iframe = InitIframe
  /\ notes = InitNotes
  /\ \E ub \in BookmarkTables, cw \in ContinueTables :
       library = [bookmarks |-> Loaded(ub, "u1"), continueWatching |-> Loaded(cw, "u1"),
                  user_bookmarks |-> ub, continue_watching |-> cw, calls |-> <<>>]
  /\ probe = NoProbe

\* the bookmark and continue-watching operations, the logout, and the
\* sign-out forced when the administrator ends the session
LibraryStep ==
  \/ \E m \in MediaItems : NekoFlixToggleBookmark(m)
  \/ \E m \in MediaItems : BookmarkButtonClick(m)
  \/ \E m \in MediaItems : RemoveButtonClick(m.id)
  \/ \E k \in 1..MaxRemote, o \in Outcomes : RemoteReturn(k, o)
  \/ LogoutClick(PlayerDevice)
  \/ \E o \in Outcomes : LoEndUpsertReturn(PlayerDevice, o)
  \/ \E o \in Outcomes : LoSignOutReturn(PlayerDevice, o)
  \/ AdminEnd
  \/ HandleSessionEvent(PlayerDevice)
  \/ \E o \in Outcomes : FsoSignOutReturn(PlayerDevice, o)

SpecLibrary == InitLibrarySpec /\ [][LibraryStep]_vars

\* ------------------------------------------- a sign-in against an Active device
\* browser B is Active for the user and holds the session row (flagged
\* 'S' or not flagged); browser A holds an AuthService session of the same
\* user and has called registerSessionForUser, from handleSignin or from
\* the loadUser of a page load, suspended at its select.  Nothing but A's
\* registration can take the row from B
InitLookup ==
  /\ \E f \in {"S", NULL} :
       active_sessions = {[user_id |-> "u1", device_id |-> "B",
                           is_active |-> "true", session_flag |-> f]}
  /\ allowed_users = {[email |-> "u1", approved |-> "true", expiry_date |-> NoExpiry]}
  /\ authSession = [d \in Devices |-> "u1"]
  /\ now = InitNow
  /\ \E caller \in {"hs", "lu"} :
       /\ currentUser = [d \in Devices |-> IF d = "B" \/ caller = "lu" THEN "u1" ELSE NULL]
       /\ isUserApproved = [d \in Devices |-> d = "B" \/ caller = "lu"]
       /\ ui = [d \in Devices |-> IF d = "B" THEN "auth"
                                   ELSE IF caller = "hs" THEN "unauth" ELSE "loading"]
       /\ hs = [d \in Devices |-> IF d = "B" \/ caller = "lu" THEN HsIdle
                                   ELSE [pc |-> "register", user |-> "u1"]]
       /\ lu = [d \in Devices |-> IF d = "B" \/ caller = "hs" THEN LuIdle
                 ELSE [pc |-> "register", user |-> "u1",
                       accessCheck |-> [allowed |-> TRUE, reason |-> "approved",
                                        expiryDate |-> NoExpiry]]]
       /\ reg = [d \in Devices |-> IF d = "B" THEN RegIdle
                                    ELSE [pc |-> "select", user |-> "u1", caller |-> caller]]
  /\ heartbeatIntervalId = [d \in Devices |->
        IF d = "B" THEN {[user_id |-> "u1", device_id |-> getDeviceId(d)]} ELSE {}]
  /\ sessionChannel = [d \in Devices |->
        IF d = "B" THEN {[user_id |-> "u1", device_id |-> getDeviceId(d)]} ELSE {}]
  /\ inbox = [d \in Devices |-> <<>>]
  /\ fso = [d \in Devices |-> <<>>]
  /\ lo = [d \in Devices |-> LoIdle]
  /\ ops = MaxOps
  /\ InitPlayerVars
  /\ probe = NoProbe

NextLookup ==
  \E d \in Devices :
    \/ \E o \in Outcomes : RegSelectReturn(d, o)
    \/ \E o \in Outcomes : RegSignOutReturn(d, o)
    \/ \E o \in Outcomes : RegUpsertReturn(d, o)
    \/ LuLoadsReturn(d)
    \/ HeartbeatTick(d)
    \/ HandleSessionEvent(d)
    \/ \E o \in Outcomes : FsoSignOutReturn(d, o)

SpecLookup == InitLookup /\ [][NextLookup]_vars

\* ------------------------------------------- a logout beside an Active device
\* the same two browsers, with every lookup answered: A is rejected, and
\* the loadUser of its page load goes on to the authenticated view, where
\* the logout link is; either browser can log out
NextOwner ==
  \E d \in Devices :
    \/ RegSelectReturn(d, "ok")
    \/ \E o \in Outcomes : RegSignOutReturn(d, o)
    \/ LuLoadsReturn(d)
    \/ LogoutClick(d)
    \/ \E o \in Outcomes : LoEndUpsertReturn(d, o)
    \/ \E o \in Outcomes : LoSignOutReturn(d, o)
    \/ HeartbeatTick(d)
    \/ HandleSessionEvent(d)
    \/ \E o \in Outcomes : FsoSignOutReturn(d, o)

SpecOwner == InitLookup /\ [][NextOwner]_vars

\* ------------------------------------------- a voluntary logout
\* both browsers signed in and subscribed; a logout, with the upsert of
\* endSessionForUser answered at once (LoEndUpsertReturn) or after its
\* change event was delivered (LoEndUpsertApplied, LoEndUpsertAck)
NextLogout ==
  \E d \in Devices :
    \/ LogoutClick(d)
    \/ \E o \in Outcomes : LoEndUpsertReturn(d, o)
    \/ LoEndUpsertApplied(d)
    \/ LoEndUpsertAck(d)
    \/ \E o \in Outcomes : LoSignOutReturn(d, o)
    \/ HeartbeatTick(d)
    \/ HandleSessionEvent(d)
    \/ \E o \in Outcomes : FsoSignOutReturn(d, o)

SpecLogout == InitHeartbeat /\ [][NextLogout]_vars

\* ------------------------------------------- one browser's session flows
\* page load on the player browser with the entitlement record in any of
\* its states and the session row absent or left active by the other
\* browser; then the browser's own flows and the administrator ending the
\* session
InitFlow ==
  /\ active_sessions \in {{}, {[user_id |-> "u1", device_id |-> "B",
                                 is_active |-> "true", session_flag |-> "S"]}}
  /\ allowed_users \in EntitlementChoices("u1")
  /\ authSession = [d \in Devices |-> NULL]
  /\ now = InitNow
  /\ InitClient
  /\ InitPlayerVars
  /\ probe = NoProbe

NextFlow ==
  \/ SessionStep(PlayerDevice)
  \/ AdminEnd

SpecFlow == InitFlow /\ [][NextFlow]_vars

\* ================================================================ claims
\* ------------------------------------------------------ EntitlementGate
\* C5: the decision table of isAllowedUser over every entitlement record
\* state of a lookup that did not fail: no record gives (false, not_found);
\* approved not exactly true gives (false, not_approved); approved = true
\* with an expiry date strictly before now gives (false, expired);
\* approved = true with the expiry absent or not before now gives true
C5_DecisionTable ==
  (probe.fn = "isAllowedUser" /\ probe.done /\ probe.resp.kind = "resolved"
     /\ probe.resp.error \in {"none", "PGRST116"}) =>
    IF probe.resp.data = {}
      THEN ~probe.out.allowed /\ probe.out.reason = "not_found"
    ELSE \A r \in probe.resp.data :
      IF r.approved # "true"
        THEN ~probe.out.allowed /\ probe.out.reason = "not_approved"
      ELSE IF r.expiry_date.kind = "date" /\ r.expiry_date.day * TicksPerDay < probe.t
        THEN ~probe.out.allowed /\ probe.out.reason = "expired"
      ELSE probe.out.allowed /\ probe.out.expiryDate = r.expiry_date

\* C5 witness: an approved record whose expiry date is the very instant of
\* the check has been decided
C5_Witness ==
  /\ probe.fn = "isAllowedUser" /\ probe.done /\ probe.resp.error = "none"
  /\ \E r \in probe.resp.data :
        /\ r.approved = "true" /\ r.expiry_date.kind = "date"
        /\ r.expiry_date.day * TicksPerDay = probe.t
  /\ probe.out.allowed

\* C6: the entitlement lookup fails closed.  When the query of loadUser's
\* isAllowedUser call returns an error or throws, the result is
\* allowed = false with reason "error" and the entitlement flag set from it
\* is false, whatever the stored record and the flag before
C6_FailsClosed ==
  [][\A d \in Devices : \A o \in {"err", "throw"} :
       LuIsAllowedReturn(d, o) =>
         /\ ~lu'[d].accessCheck.allowed
         /\ lu'[d].accessCheck.reason = "error"
         /\ ~isUserApproved'[d]]_vars

\* C6 witness: the lookup failed for a user whose stored record would be
\* allowed; the flag is false
C6_Witness ==
  \E d \in Devices :
    /\ lu[d].accessCheck.reason = "error"
    /\ ~isUserApproved[d]
    /\ \E r \in allowed_users : r.approved = "true" /\ r.expiry_date = NoExpiry

\* --------------------------------------------------------- SessionGuard
\* device d is Active: its heartbeat and its subscription run and the
\* stored row of its user is active and names d
Active(d) ==
  /\ heartbeatIntervalId[d] # {}
  /\ sessionChannel[d] # {}
  /\ \E h \in heartbeatIntervalId[d] : \E r \in active_sessions :
        r.user_id = h.user_id /\ r.is_active = "true" /\ r.device_id = d

\* C1: when the lookup of registerSessionForUser resolves while the stored
\* row of the user is active on another device, the call is rejected (it
\* does not go on to write the row); when the stored row names the calling
\* device, the call is not rejected as a conflict
C1_ForeignActiveRejected ==
  [][\A d \in Devices :
       (reg[d].pc = "select" /\ reg'[d] # reg[d]) =>
         LET stored == {r \in active_sessions : r.user_id = reg[d].user} IN
         /\ (\E r \in stored : r.is_active = "true" /\ r.device_id \notin {NULL, d})
              => (reg'[d].pc # "upsert" /\ active_sessions' = active_sessions)
         /\ (\E r \in stored : r.device_id = d) => reg'[d].pc # "signOut"]_vars

\* C2: while device a is Active, the lookup of a sign-in of the same user
\* on another device b never lets b go on to register: b starts no
\* heartbeat and no subscription, and a's session is left alone
C2_SecondDeviceRejected ==
  [][\A a \in Devices : \A b \in Devices \ {a} :
       (Active(a) /\ reg[b].caller = "hs" /\ reg[b].pc = "select" /\ reg'[b] # reg[b]) =>
         /\ reg'[b].pc # "upsert"
         /\ heartbeatIntervalId'[b] = {} /\ sessionChannel'[b] = {}
         /\ heartbeatIntervalId'[a] = heartbeatIntervalId[a] /\ fso'[a] = fso[a]]_vars

\* C10: when forceLocalSignOut completes, whether the AuthService sign-out
\* succeeded or failed, the client has no heartbeat timer, no realtime
\* subscription and shows the unauthenticated view
C10_ForcedSignOutTearsDown ==
  [][\A d \in Devices : \A o \in Outcomes :
       FsoSignOutReturn(d, o) =>
         /\ heartbeatIntervalId'[d] = {}
         /\ sessionChannel'[d] = {}
         /\ ui'[d] = "unauth"]_vars

\* C3: a play click points the embedded document at a provider URL only
\* if, at the click, an identity is signed in at the AuthService and the
\* entitlement flag is true; otherwise the embedded document and the
\* playback state stay as they are, and a signed-in identity is shown the
\* payment prompt
C3_PlayOnlySignedInAndEntitled ==
  [][(\E m \in MediaItems : CardClick(m) \/ HeroClick(m, "play") \/ HeroClick(m, "locked")) =>
       \/ authSession[PlayerDevice] # NULL /\ isUserApproved[PlayerDevice]
       \/ /\ iframe' = iframe /\ player' = player
          /\ authSession[PlayerDevice] # NULL => notes'.paymentModal]_vars

\* C7: on a DELETE event the handler calls forceLocalSignOut exactly once
\* when the deleted row's device id is this device's id, and does not call
\* it, leaving the session state as it was, when it is another device's
C7_DeleteEvent ==
  [][\A d \in Devices :
       (HandleSessionEvent(d) /\ Head(inbox[d]).eventType = "DELETE") =>
         LET old == Head(inbox[d]).old IN
         IF \E r \in old : r.device_id = d
           THEN /\ Len(fso'[d]) = Len(fso[d]) + 1
                /\ heartbeatIntervalId'[d] = {} /\ sessionChannel'[d] = {}
           ELSE /\ fso' = fso
                /\ UNCHANGED <<heartbeatIntervalId, sessionChannel, ui, authSession,
                                currentUser, isUserApproved>>]_vars

\* C7 witness: a forced sign-out for a deleted session is in progress
C7_Witness ==
  \E d \in Devices : fso[d] # <<>> /\ Head(fso[d]) = "deleted"

\* C8: on an INSERT or UPDATE event, a row with is_active = false or a
\* session_flag that is 'N' in either case forces a sign-out ("disabled");
\* otherwise a row whose device id is present and not this device's forces
\* a sign-out ("used on another device"); every other event forces none
\* and the session stays Active
C8_InsertUpdateEvent ==
  [][\A d \in Devices :
       (HandleSessionEvent(d) /\ Head(inbox[d]).eventType \in {"INSERT", "UPDATE"}) =>
         \A r \in Head(inbox[d]).new :
           LET disabled == r.is_active = "false" \/ r.session_flag \in {"N", "n"}
               foreign == r.device_id # NULL /\ r.device_id # d IN
           IF disabled \/ foreign
             THEN /\ fso'[d] = Append(fso[d], IF disabled THEN "disabled" ELSE "other_device")
                  /\ heartbeatIntervalId'[d] = {} /\ sessionChannel'[d] = {}
             ELSE /\ fso' = fso
                  /\ heartbeatIntervalId'[d] = heartbeatIntervalId[d]
                  /\ heartbeatIntervalId'[d] # {}
                  /\ sessionChannel'[d] = sessionChannel[d]
                  /\ sessionChannel'[d] # {}
                  /\ UNCHANGED <<ui, authSession, currentUser, isUserApproved>>]_vars

\* C8 witness: a forced sign-out for a session taken by another device is
\* in progress
C8_Witness ==
  \E d \in Devices : fso[d] # <<>> /\ Head(fso[d]) = "other_device"

\* ---------------------------------------------------------- EmbedPlayer
\* C4: with the four sources and every load failing by the 10 s timer (no
\* error signal), one playback start makes at most four load attempts, the
\* indices 0, 1, 2, 3 in that order, and never a fifth
C4_AtMostSourceCountLoads ==
  (notes.opens = 1 /\ notes.errors = 0) =>
    \E n \in 0..4 : notes.loadLog = SubSeq(<<0, 1, 2, 3>>, 1, n)

C11_RejectionBlocksFlow ==
  [][\A d \in Devices : \A o \in Outcomes :
       RegSignOutReturn(d, o) =>
         /\ hs'[d].pc = "idle"
         /\ lu'[d].pc = "idle"
         /\ ui'[d] \notin {"auth", "auth_pay"}]_vars

C13_IdentityRecheckedAfterAwait ==
  [][\A d \in Devices :
       (lu[d].pc \in {"isAllowed", "register", "loads"}
          /\ authSession[d] = NULL /\ ui[d] = "unauth") =>
         /\ isUserApproved'[d] => isUserApproved[d]
         /\ ui'[d] \notin {"auth", "auth_pay"}]_vars

\* C14: updateWatchProgress with a user and a title: a position of at
\* least 60 seconds sends one entry, and for a total duration above 0 the
\* entry is completed exactly when position / duration is strictly above
\* 0.90 (400 of 500 is not, 450 of 500 is not, 460 of 500 is); a position
\* below 60 seconds sends nothing
C14_CompletedAboveNinetyPercent ==
  (probe.fn = "updateWatchProgress" /\ probe.done
     /\ probe.user # NULL /\ probe.mediaItem # NoMedia) =>
    /\ probe.currentTime < 60 * Hz => probe.out = {}
    /\ probe.currentTime >= 60 * Hz =>
         /\ Cardinality(probe.out) = 1
         /\ \A r \in probe.out :
              /\ probe.duration > 0 =>
                   (r.completed <=> probe.currentTime * 10 > 9 * probe.duration * Hz)
              /\ (probe.duration = 500 /\ probe.currentTime = 400 * Hz) => ~r.completed
              /\ (probe.duration = 500 /\ probe.currentTime = 460 * Hz) => r.completed
C14_Witness ==
  /\ probe.fn = "updateWatchProgress" /\ probe.done
  /\ probe.user # NULL /\ probe.mediaItem # NoMedia
  /\ probe.duration = 500 /\ probe.currentTime = 450 * Hz
  /\ \E r \in probe.out : ~r.completed /\ r.watch_progress = 450

\* C15: closePlayer with a signed-in user and an open playback session of
\* a film or a series: after more than 30 seconds of playback it sends a
\* watch-history row and a continue-watching row and starts a statistics
\* update; after 30 seconds or less it sends none of the three
C15_CloseWritesAllThree ==
  [][(/\ ClosePlayer
      /\ currentUser[PlayerDevice] # NULL
      /\ player.watchStartTime # NULL
      /\ player.currentMediaType \in {"movie", "tv"}) =>
       IF player.elapsed > 30 * Hz
         THEN /\ Len(notes'.history) = Len(notes.history) + 1
              /\ Len(notes'.progress) = Len(notes.progress) + 1
              /\ Len(notes'.stats) = Len(notes.stats) + 1
         ELSE /\ notes'.history = notes.history
              /\ notes'.progress = notes.progress
              /\ notes'.stats = notes.stats]_vars

\* C16: a tick of the 30 s tracker during an open playback session of a
\* film or a series, with a signed-in user: from 60 seconds of elapsed
\* time on (60 included) it sends one continue-watching row whose position
\* is the elapsed time in whole seconds and whose total duration is 7200
\* for a film and 2700 for a series episode; below 60 seconds it sends
\* nothing
C16_TickWritesFromSixtySeconds ==
  [][(/\ trackPlayerProgress
      /\ currentUser[PlayerDevice] # NULL
      /\ player.watchStartTime # NULL
      /\ player.currentMediaType \in {"movie", "tv"}) =>
       IF player.elapsed >= 60 * Hz
         THEN /\ Len(notes'.progress) = Len(notes.progress) + 1
              /\ LET r == notes'.progress[Len(notes'.progress)] IN
                   /\ r.watch_progress = player.elapsed \div Hz
                   /\ r.total_duration =
                        IF player.currentMediaType = "movie" THEN 7200 ELSE 2700
         ELSE notes'.progress = notes.progress]_vars

\* C20: while a playback is open, after every playback start and every
\* season or episode change, the source list has exactly 4 entries in the
\* order of the providers, each built from the current title (and the
\* current season and episode for a series), so that no entry of another
\* title is in it
C20_SourcesRebuiltForCurrentTitle ==
  notes.playerModal =>
    /\ Len(player.embedSources) = 4
    /\ \A i \in DOMAIN player.embedSources :
         LET e == player.embedSources[i] IN
         /\ e.provider = i
         /\ e.id = player.currentMediaId
         /\ e.media_type = player.currentMediaType
         /\ player.currentMediaType = "tv" =>
              e.season = player.currentSeason /\ e.episode = player.currentEpisode

\* C17: on one storage scope every call of getDeviceId that returns,
\* whoever makes it, returns the identifier the first such call returned,
\* and an identifier once stored is never replaced
C17_DeviceIdIdempotent ==
  /\ [](probe.fn = "getDeviceId" =>
         \A i, j \in DOMAIN probe.log :
           (probe.log[i].ok /\ probe.log[j].ok) => probe.log[i].id = probe.log[j].id)
  /\ [][(probe.fn = "getDeviceId" /\ probe.store # {}) => probe'.store = probe.store]_vars
C17_Witness ==
  /\ probe.fn = "getDeviceId"
  /\ Len(probe.log) >= 3
  /\ probe.log[1].before = {} /\ probe.log[1].ok
  /\ probe.log[1].caller = "registerSessionForUser"
  /\ probe.log[2].caller = "endSessionForUser" /\ probe.log[2].id = probe.log[1].id
  /\ probe.log[3].caller = "registerSessionForUser" /\ probe.log[3].id = probe.log[1].id

\* C18: getDeviceId always returns an identifier: also when the write of a
\* newly generated identifier fails, the call returns it and no exception
\* reaches registerSessionForUser or endSessionForUser
C18_DeviceIdNeverThrows ==
  probe.fn = "getDeviceId" => \A i \in DOMAIN probe.log : probe.log[i].ok

\* C19: explicit logout of a signed-in user: the click leaves heartbeat and
\* subscription running while the upsert of the closed session is awaited;
\* when the upsert has resolved, whatever its outcome, both are stopped;
\* and when the logout has completed the stored row is not an active
\* session of this device and the device has no heartbeat timer
C19_LogoutClosesThenTearsDown ==
  [][\A d \in Devices :
       /\ (lo[d].pc = "idle" /\ lo'[d].pc = "endUpsert") =>
            /\ heartbeatIntervalId'[d] = heartbeatIntervalId[d]
            /\ sessionChannel'[d] = sessionChannel[d]
       /\ (lo[d].pc = "endUpsert" /\ lo'[d].pc = "signOut") =>
            /\ heartbeatIntervalId'[d] = {}
            /\ sessionChannel'[d] = {}
       /\ (lo[d].pc = "signOut" /\ lo[d].user # NULL /\ lo'[d].pc = "idle"
              /\ ui'[d] = "unauth") =>
            /\ heartbeatIntervalId'[d] = {}
            /\ \A r \in SessionOf(active_sessions', lo[d].user) :
                 ~(r.is_active = "true" /\ r.device_id = getDeviceId(d))]_vars

\* ------------------------------------------------- failover and detectors
\* C21: at most one source load is in flight: whenever a load starts (a
\* playback start, a failover, a source button, a season or episode
\* change), no earlier load has a failure detector still armed (its 10 s
\* timer or a retry timer), and no failover delay stays pending
C21_OneLoadInFlight ==
  [][Len(notes'.loadLog) > Len(notes.loadLog) =>
       /\ \A k \in DOMAIN loads : ~loads[k].armed /\ ~loads[k].retryPending
       /\ failovers' = <<>>]_vars

\* C22: the 10 s timer of a loadSource(i) invocation declares source i
\* failed exactly when no load event came between arming and expiry: a
\* load event disarms the timer, and a timer that expires still armed
\* calls handleSourceFailure(i), which schedules the load of source i + 1
C22_TimerFailsIffNoLoadEvent ==
  [][/\ IframeLoad => \A j \in DOMAIN loads' : ~loads'[j].armed
     /\ \A k \in DOMAIN loads :
          (\E frames \in {0, 1} : LoadTimeoutFire(k, frames)) =>
            failovers' = Append(failovers, (loads[k].index + 1) % 4)]_vars

\* C23: handleSourceFailure(i) on a list of n sources: for n = 1 the next
\* index is i itself, the "all sources failed" notice is shown and no load
\* is scheduled; for n > 1 exactly one load is scheduled, of index
\* (i + 1) mod n, and no notice is shown
C23_NextIndexOrTerminal ==
  (probe.fn = "handleSourceFailure" /\ probe.done) =>
    LET i == probe.currentIndex
        n == probe.count
        next == IF i + 1 = n THEN 0 ELSE i + 1 IN
    IF n = 1
      THEN /\ probe.out[1] = probe.fo
           /\ probe.out[2] = probe.allFailed + 1
      ELSE /\ next # i
           /\ probe.out[1] = probe.fo \o <<next>>
           /\ probe.out[2] = probe.allFailed
C23_Witness ==
  /\ probe.fn = "handleSourceFailure" /\ probe.done
  /\ probe.count = 1 /\ probe.fo = <<>> /\ probe.out = <<(<<>>), probe.allFailed + 1>>

\* C24: a season or episode change rebuilds the sources for the new
\* season and episode and loads index 0 of them; and a 10 s timer that
\* schedules a failover afterwards belongs to a load of the current list,
\* never to a load started before the change
C24_EpisodeChangeRestartsAtZero ==
  [][/\ notes'.episodeChanges > notes.episodeChanges =>
          /\ player'.embedSources = buildEmbedSources(player')
          /\ notes'.loadLog = Append(notes.loadLog, 0)
          /\ iframe'.src = player'.embedSources[1]
     /\ \A k \in DOMAIN loads :
          ((\E frames \in {0, 1} : LoadTimeoutFire(k, frames)) /\ failovers' # failovers) =>
            loads[k].source = player.embedSources[loads[k].index + 1]]_vars

C26_RegistrationClaimsRow ==
  [][\A d \in Devices :
       /\ (/\ RegSelectReturn(d, "ok")
           /\ \A r \in SessionOf(active_sessions, reg[d].user) :
                 r.device_id = getDeviceId(d) \/ r.is_active # "true") =>
            reg'[d].pc = "upsert"
       /\ RegUpsertReturn(d, "ok") =>
            LET u == reg[d].user IN
            /\ SessionOf(active_sessions', u) =
                 {[user_id |-> u, device_id |-> getDeviceId(d),
                   is_active |-> "true", session_flag |-> "S"]}
            /\ reg'[d].pc = "idle"
            /\ reg[d].caller = "hs" => hs'[d].pc = "loadUser"
            /\ heartbeatIntervalId'[d] = {[user_id |-> u, device_id |-> getDeviceId(d)]}
            /\ sessionChannel'[d] = {[user_id |-> u, device_id |-> getDeviceId(d)]}]_vars
C26_Witness ==
  \E d \in Devices :
    /\ hs[d].pc = "loadUser" /\ reg[d].pc = "idle" /\ lu[d].pc = "getUser"
    /\ active_sessions = {[user_id |-> "u1", device_id |-> getDeviceId(d),
                            is_active |-> "true", session_flag |-> "S"]}
    /\ heartbeatIntervalId[d] # {} /\ sessionChannel[d] # {}

\* C27: a heartbeat tick on an existing session row writes this device's
\* device_id and leaves is_active and session_flag as they are stored, so
\* a row that is inactive or flagged 'N' is inactive or flagged 'N' after
\* the tick
C27_HeartbeatKeepsActiveAndFlag ==
  [][\A d \in Devices :
       (HeartbeatTick(d) /\ SessionOf(active_sessions, "u1") # {}) =>
         \E r \in SessionOf(active_sessions, "u1") :
           active_sessions' = {[r EXCEPT !.device_id = getDeviceId(d)]}]_vars
C27_Witness ==
  /\ \A d \in Devices : inbox[d] # <<>>
  /\ \E r \in active_sessions :
       r.is_active = "false" /\ r.session_flag = "N" /\ r.device_id \in Devices

\* C28: registration decides at its read and writes later without looking
\* again: an upsert that is applied claims the row for its device, starts
\* that device's heartbeat, leaves the other device's heartbeat running and
\* resumes handleSignin as a success, also when the row is by then held
\* active by the other device; so two registrations whose reads both
\* complete before either upsert both succeed
C28_UpsertDoesNotLookAgain ==
  [][\A d \in Devices :
       RegUpsertReturn(d, "ok") =>
         /\ heartbeatIntervalId'[d] # {}
         /\ \A e \in Devices \ {d} : heartbeatIntervalId'[e] = heartbeatIntervalId[e]
         /\ reg'[d] = RegIdle /\ hs'[d].pc = "loadUser"
         /\ \E r \in active_sessions' : r.device_id = getDeviceId(d) /\ r.is_active = "true"]_vars
\* both calls have returned success and both heartbeats run
C28_Witness ==
  \A d \in Devices :
    /\ heartbeatIntervalId[d] # {} /\ sessionChannel[d] # {}
    /\ reg[d] = RegIdle /\ hs[d].pc = "loadUser"
    /\ authSession[d] = "u1"

C30_RemoveContinueWatching ==
  /\ [](\A m \in MediaItems : removeContinueWatchingStart(NULL, library, m.id) = library)
  /\ [][\A k \in 1..MaxRemote, o \in Outcomes :
          (/\ RemoteReturn(k, o)
           /\ library.calls[k].fn = "removeContinueWatching"
           /\ library.calls[k].alive) =>
            LET id == library.calls[k].media.id
                keep(e) == e.id # id IN
            IF o = "ok"
              THEN /\ \A i \in DOMAIN library'.continueWatching :
                        library'.continueWatching[i].id # id
                   /\ library'.continueWatching = SelectSeq(library.continueWatching, keep)
              ELSE library'.continueWatching = library.continueWatching]_vars
  /\ [][(\E j \in DOMAIN library.continue_watching :
            \A i \in DOMAIN library'.continue_watching :
               library'.continue_watching[i] # library.continue_watching[j]) =>
          \E k \in DOMAIN library.calls :
            /\ RemoteReturn(k, "ok")
            /\ library.calls[k].fn = "removeContinueWatching"]_vars
\* one of two listed titles has been removed: its row is gone and the
\* other title is still listed; a second removal is in flight
C30_Witness ==
  /\ Len(library.continueWatching) = 1
  /\ Len(library.continue_watching) = 1
  /\ library.continueWatching[1].id = 2
  /\ library.continue_watching[1].media.id = 2
  /\ \E k \in DOMAIN library.calls : library.calls[k].fn = "removeContinueWatching"
  /\ currentUser[PlayerDevice] # NULL

\* C31: a loadSource(i) invocation calls handleSourceFailure(i) at most
\* once: when its error-retry detector or its 10 s timer declares the
\* source failed, the invocation has not declared it failed before
C31_OneFailurePerLoad ==
  [][/\ (IframeError /\ Len(failovers') > Len(failovers)) =>
          loads[iframe.onerror].failedCalls = 0
     /\ \A k \in DOMAIN loads :
          (LoadTimeoutFire(k, 0) /\ Len(failovers') > Len(failovers)) =>
            loads[k].failedCalls = 0]_vars

\* C32: once the player has been closed, the embedded document is blank
\* until the next playback start: no detector or failover delay armed
\* before the close points it at a provider URL again
C32_BlankWhileClosed ==
  (notes.opens > 0 /\ ~notes.playerModal) => iframe.src = AboutBlank

\* ------------------------------------------------------ the session flag
\* C33: whenever the entitlement flag of a browser is true, an identity is
\* signed in on it (at the AuthService, and as its current user); so the
\* flag is false after every sign-out, voluntary or forced
C33_FlagImpliesSignedIn ==
  \A d \in Devices :
    isUserApproved[d] => (authSession[d] # NULL /\ currentUser[d] = authSession[d])

\* C34: registerSessionForUser succeeds (starts the heartbeat and the
\* subscription and lets its caller go on) only if its upsert was applied:
\* when the upsert has resolved and the heartbeat runs, the stored row of
\* the user names this device and is active
C34_SuccessOnlyIfUpsertApplied ==
  [][\A d \in Devices : \A o \in Outcomes :
       (RegUpsertReturn(d, o) /\ heartbeatIntervalId'[d] # {}) =>
         \E r \in SessionOf(active_sessions', reg[d].user) :
           r.device_id = getDeviceId(d) /\ r.is_active = "true"]_vars

\* C35: a sign-in on a second device never takes over the session of a
\* device that is Active, also when the lookup of the stored row fails:
\* the row stays active on the device that holds it, and that device keeps
\* its heartbeat and is not signed out
C35_NoTakeoverOnLookupFailure ==
  /\ \E r \in active_sessions : r.device_id = "B" /\ r.is_active = "true"
  /\ heartbeatIntervalId["B"] # {}
  /\ fso["B"] = <<>>

\* C36: the endSessionForUser of a logout on a device that does not own
\* the stored session row (the row names another device) leaves the row as
\* it is and sends no change event to the other devices
C36_LogoutLeavesForeignRow ==
  [][\A d \in Devices : \A o \in Outcomes :
       (/\ LoEndUpsertReturn(d, o)
        /\ \E r \in SessionOf(active_sessions, lo[d].user) :
              r.device_id \notin {NULL, getDeviceId(d)}) =>
         /\ active_sessions' = active_sessions
         /\ \A e \in Devices \ {d} : inbox'[e] = inbox[e]]_vars

\* C37: while a logout is running, the change event of the device's own
\* endSessionForUser upsert (the row of this device, inactive, flagged 'N')
\* does not make the realtime handler call forceLocalSignOut on that device
C37_OwnLogoutEventIgnored ==
  [][\A d \in Devices :
       (/\ HandleSessionEvent(d)
        /\ lo[d].pc # "idle"
        /\ \E r \in Head(inbox[d]).new :
              r.device_id = getDeviceId(d) /\ r.is_active = "false" /\ r.session_flag = "N") =>
         fso'[d] = fso[d]]_vars

\* C38: once a sign-out of the player browser has completed (forced or by
\* the logout link, its AuthService session gone and the unauthenticated
\* view shown), no step sends a continue-watching row or a watch-history
\* record, also when the player was open at the sign-out
C38_NoWriteAfterSignOut ==
  [][(/\ authSession[PlayerDevice] = NULL
      /\ ui[PlayerDevice] = "unauth"
      /\ fso[PlayerDevice] = <<>>
      /\ lo[PlayerDevice].pc = "idle") =>
       /\ notes'.progress = notes.progress
       /\ notes'.history = notes.history]_vars

\* C39: a client holds at most one heartbeat timer and at most one
\* realtime subscription, and holds neither once a sign-out has completed
\* (no AuthService session, no flow of the client suspended)
C39_OneTimerOneChannelNoneSignedOut ==
  \A d \in Devices :
    /\ Cardinality(heartbeatIntervalId[d]) <= 1
    /\ Cardinality(sessionChannel[d]) <= 1
    /\ (/\ authSession[d] = NULL
        /\ hs[d].pc = "idle" /\ lu[d].pc = "idle" /\ reg[d].pc = "idle"
        /\ lo[d].pc = "idle" /\ fso[d] = <<>>) =>
         (heartbeatIntervalId[d] = {} /\ sessionChannel[d] = {})
====
